---------------------------- MODULE Spec2Model ----------------------------
(***************************************************************************)
(* paprik-ai: the sync service (SyncService.syncCategories, syncRecipes,   *)
(* sortCategoriesByDependency) over the SQLite-backed repositories         *)
(* (RecipeRepository, CategoryRepository), with foreign keys enabled as    *)
(* getDatabase enables them.                                               *)
(*                                                                         *)
(* Conventions.  A value that may be null/undefined is a set with at most  *)
(* one element: {} is null/undefined, {v} is the value v.  Uids are        *)
(* non-empty strings.  The database is a record                            *)
(*   [recipes, categories, links]                                          *)
(* of the three tables: recipes and categories are functions from the      *)
(* stored uids (the primary keys) to rows, links is the set of             *)
(* <<recipe_uid, category_uid>> rows of recipe_categories.                 *)
(***************************************************************************)
EXTENDS Integers, Sequences, FiniteSets, TLC

(***************************************************************************)
(* Bounds of the model.                                                    *)
(***************************************************************************)
MaxCategories == 2      \* longest remote category list in a category pass
MaxIndex == 2           \* longest remote recipe index in a recipe pass
MaxSortInput == 3       \* longest input list given to the sorter alone

RecipeUids == {"r1", "r2", "r3"}
CategoryUids == {"c1", "c2", "c3"}

None == {}
Some(v) == {v}
Val(x) == CHOOSE v \in x : TRUE

Range(s) == {s[i] : i \in 1..Len(s)}

SeqsUpTo(S, n) == UNION {[1..k -> S] : k \in 0..n}

(***************************************************************************)
(* Rows and tables.                                                        *)
(***************************************************************************)
\* A row of categories: name, order_flag, parent_uid (unnamed/part_013:38-46).
CategoryRow(name, order_flag, parent_uid) ==
    [name |-> name, order_flag |-> order_flag, parent_uid |-> parent_uid]

\* A row of recipes (unnamed/part_013:8-35), with one representative of the
\* nullable text columns (notes) and of the blob columns (photo).
RecipeRow(name, notes, rating, photo, in_trash, on_favorites) ==
    [name |-> name, notes |-> notes, rating |-> rating, photo |-> photo,
     in_trash |-> in_trash, on_favorites |-> on_favorites]

EmptyFn == [x \in {} |-> x]

EmptyDb == [recipes |-> EmptyFn, categories |-> EmptyFn, links |-> {}]

\* f with the key k set to v (an INSERT of a new key or an UPDATE of a stored one).
Put(f, k, v) == [x \in (DOMAIN f) \cup {k} |-> IF x = k THEN v ELSE f[x]]

\* f restricted to the keys in S.
Restrict(f, S) == [x \in (DOMAIN f) \cap S |-> f[x]]

\* What a repository call gives back: whether it raised, and the database after it.
Ok(db) == [ok |-> TRUE, db |-> db]
Raised(db) == [ok |-> FALSE, db |-> db]

\* What a repository call that returns a value gives back: the value too.
Returned(db, value) == [ok |-> TRUE, db |-> db, value |-> value]

\* The clock the repositories and SQLite read.
VARIABLE now

\* The texts written to the updated column at time t: SQLite's
\* CURRENT_TIMESTAMP ('YYYY-MM-DD HH:MM:SS') and new Date().toISOString()
\* ('YYYY-MM-DDTHH:MM:SS.sssZ') are different texts for the same time.
CurrentTimestamp(t) == [by |-> "CURRENT_TIMESTAMP", at |-> t]
toISOString(t) == [by |-> "toISOString", at |-> t]

\* A stored row: the columns given and the updated column.  (created is
\* written by the INSERT's default only and by no other statement.)
Stamped(row, updated) ==
    [f \in (DOMAIN row) \cup {"updated"} |-> IF f = "updated" THEN updated ELSE row[f]]

\* The columns of a stored row other than updated.
Columns(row) == [f \in (DOMAIN row) \ {"updated"} |-> row[f]]

(***************************************************************************)
(* CategoryRepository (src/src/lib/repositories/categories.ts).            *)
(***************************************************************************)
\* FOREIGN KEY (parent_uid) REFERENCES categories(uid), checked when the
\* statement ends: every non-null parent_uid names a stored category.
CategoryForeignKeyOk(categories) ==
    \A u \in DOMAIN categories :
        categories[u].parent_uid # None
            => Val(categories[u].parent_uid) \in DOMAIN categories

\* The row create and upsert write for a category: order_flag ?? null,
\* parent_uid ?? null.
CategoryRowOf(category) ==
    CategoryRow(category.name, category.order_flag, category.parent_uid)

\* create: INSERT INTO categories; raises on a stored uid (PRIMARY KEY) and on
\* a parent_uid that names no stored category (FOREIGN KEY).
CategoryCreate(db, category) ==
    LET after == Put(db.categories, category.uid,
                     Stamped(CategoryRowOf(category), CurrentTimestamp(now)))
    IN  IF category.uid \in DOMAIN db.categories \/ ~CategoryForeignKeyOk(after)
        THEN Raised(db)
        ELSE Ok([db EXCEPT !.categories = after])

\* A slip: the UPDATE of a stored category leaves parent_uid as it was.
CategoryUpsertKeepsParent(db, category) ==
    IF category.uid \in DOMAIN db.categories
    THEN Ok([db EXCEPT !.categories =
                 Put(@, category.uid,
                     Stamped(CategoryRow(category.name, category.order_flag,
                                         db.categories[category.uid].parent_uid),
                             CurrentTimestamp(now)))])
    ELSE CategoryCreate(db, category)

\* upsert: UPDATE the stored row (updated = CURRENT_TIMESTAMP), else create.
CategoryUpsert(db, category) ==
    IF category.uid \in DOMAIN db.categories
    THEN LET after == Put(db.categories, category.uid,
                          Stamped(CategoryRowOf(category), CurrentTimestamp(now)))
         IN  IF CategoryForeignKeyOk(after)
             THEN Ok([db EXCEPT !.categories = after])
             ELSE Raised(db)
    ELSE CategoryCreate(db, category)

\* A slip: the statement of the empty-list branch is used for every list,
\* every parent_uid is set to NULL.
OrphanChildrenAll(categories, keep) ==
    [u \in DOMAIN categories |-> [categories[u] EXCEPT !.parent_uid = None]]

\* A slip: the children of the categories to be deleted are not orphaned first.
OrphanChildrenNone(categories, keep) == categories

\* The first statement(s) of hardDeleteOutstanding: parent_uid = NULL where
\* parent_uid IS NOT NULL AND parent_uid NOT IN (uids); with no uids, everywhere.
OrphanChildren(categories, keep) ==
    [u \in DOMAIN categories |->
        IF categories[u].parent_uid # None /\ Val(categories[u].parent_uid) \notin keep
        THEN [categories[u] EXCEPT !.parent_uid = None]
        ELSE categories[u]]

\* A slip: IN for NOT IN, the listed categories are deleted.
CategoryDeleteListed(db, keep) ==
    LET after == Restrict(db.categories, (DOMAIN db.categories) \ keep)
    IN  IF CategoryForeignKeyOk(after)
        THEN Ok([db EXCEPT !.categories = after,
                           !.links = {l \in db.links : l[2] \in DOMAIN after}])
        ELSE Raised(db)

\* DELETE FROM categories WHERE uid NOT IN (uids), with ON DELETE CASCADE on
\* recipe_categories.category_uid; raises if a surviving row still names a
\* deleted parent.
CategoryDelete(db, keep) ==
    LET after == Restrict(db.categories, keep)
    IN  IF CategoryForeignKeyOk(after)
        THEN Ok([db EXCEPT !.categories = after,
                           !.links = {l \in db.links : l[2] \in DOMAIN after}])
        ELSE Raised(db)

\* hardDeleteOutstanding(uids): orphan, then delete; both branches of the code
\* (uids empty or not) come to this with keep = the uids given.
CategoryHardDeleteOutstanding(db, uids) ==
    LET keep == Range(uids)
        orphaned == [db EXCEPT !.categories = OrphanChildren(db.categories, keep)]
        deleted == CategoryDelete(orphaned, keep)
    IN  IF deleted.ok THEN deleted ELSE Raised(orphaned)

(***************************************************************************)
(* CategoryRepository.getAll and getCategoryTree                           *)
(* (src/src/lib/repositories/categories.ts).                               *)
(***************************************************************************)
\* The category names of the model in the order of COLLATE NOCASE.
CategoryNameOrder == <<"Mains", "Old", "Soups">>

CategoryNoCaseRank(name) ==
    CHOOSE i \in 1..Len(CategoryNameOrder) : CategoryNameOrder[i] = name

\* ORDER BY order_flag, name COLLATE NOCASE: the row x must come before the
\* row y (NULL order_flags first, then by number, then by name).
CategoryOrderedBefore(x, y) ==
    \/ x.order_flag = None /\ y.order_flag # None
    \/ x.order_flag # None /\ y.order_flag # None /\ Val(x.order_flag) < Val(y.order_flag)
    \/ x.order_flag = y.order_flag
           /\ CategoryNoCaseRank(x.name) < CategoryNoCaseRank(y.name)

\* getAll(): SELECT * FROM categories ORDER BY order_flag, name COLLATE
\* NOCASE.  The lists of uids it may return: each stored category once; rows
\* of one order_flag and name come in any order.
CategoryGetAll(db) ==
    LET uids == DOMAIN db.categories
    IN  {s \in [1..Cardinality(uids) -> uids] :
            \A i, j \in 1..Cardinality(uids) :
                i < j => /\ s[i] # s[j]
                         /\ ~CategoryOrderedBefore(db.categories[s[j]], db.categories[s[i]])}

\* if (cat.parent_uid) { parent = categoryMap.get(cat.parent_uid); if (parent ...:
\* the category has a parent_uid and it names a category of the map.
ParentFound(db, u) ==
    db.categories[u].parent_uid # None
        /\ Val(db.categories[u].parent_uid) \in DOMAIN db.categories

\* parent.children after the forEach: the categories pushed to it, in the
\* order of allCategories.
Children(db, allCategories, parent) ==
    SelectSeq(allCategories,
              LAMBDA u : ParentFound(db, u) /\ Val(db.categories[u].parent_uid) = parent)

\* rootCategories after the forEach: no parent_uid, or parent not found.
RootCategories(db, allCategories) ==
    SelectSeq(allCategories, LAMBDA u : ~ParentFound(db, u))

\* flattenTree(categories): each category, then its children, depth first.
RECURSIVE flattenTree(_, _, _)
flattenTree(db, allCategories, cats) ==
    IF cats = << >> THEN << >>
    ELSE <<Head(cats)>>
             \o flattenTree(db, allCategories, Children(db, allCategories, Head(cats)))
             \o flattenTree(db, allCategories, Tail(cats))

\* getCategoryTree(): the lists it may return, one for each list getAll may
\* return, as the uids of the Category objects.
getCategoryTree(db) ==
    {flattenTree(db, all, RootCategories(db, all)) : all \in CategoryGetAll(db)}

(***************************************************************************)
(* SyncService.sortCategoriesByDependency (src/src/services/sync.ts).      *)
(***************************************************************************)
\* remaining.findIndex((c) => c.uid === uid): the first index, 0 for -1.
FindIndex(s, uid) ==
    IF \E i \in 1..Len(s) : s[i].uid = uid
    THEN CHOOSE i \in 1..Len(s) : s[i].uid = uid /\ \A j \in 1..(i-1) : s[j].uid # uid
    ELSE 0

\* A slip: splice removes nothing, the placed record stays in remaining.
SpliceKeeps(s, index) == s

\* remaining.splice(index, 1)
Splice(s, index) == [i \in 1..(Len(s) - 1) |-> IF i < index THEN s[i] ELSE s[i + 1]]

\* A slip: the test is passed by the records whose parent is NOT yet inserted.
CanInsertNegated(cat, inserted) ==
    cat.parent_uid = None \/ Val(cat.parent_uid) \notin inserted

\* A slip: the filter lets every record through.
CanInsertAlways(cat, inserted) == TRUE

\* The filter's test: !cat.parent_uid || inserted.has(cat.parent_uid).
CanInsert(cat, inserted) ==
    cat.parent_uid = None \/ Val(cat.parent_uid) \in inserted

\* The for loop over canInsert: push, add to inserted, remove the first
\* remaining record with that uid.
RECURSIVE InsertAll(_, _)
InsertAll(st, canInsert) ==
    IF canInsert = << >> THEN st
    ELSE LET cat == Head(canInsert)
             index == FindIndex(st.remaining, cat.uid)
         IN  InsertAll([st EXCEPT !.sorted = Append(@, cat),
                                  !.inserted = @ \cup {cat.uid},
                                  !.remaining = IF index # 0 THEN Splice(@, index) ELSE @],
                       Tail(canInsert))

\* The sorter's state before the loop.
SortStart(categories) ==
    [sorted |-> << >>, remaining |-> categories, inserted |-> {},
     previousLength |-> Len(categories), iterations |-> 0,
     done |-> Len(categories) = 0]

\* A slip: the loop goes on after an iteration that placed nothing.
SortIterationNoStall(st) ==
    LET canInsert == SelectSeq(st.remaining, LAMBDA cat : CanInsert(cat, st.inserted))
        ins == InsertAll(st, canInsert)
    IN  [ins EXCEPT !.previousLength = Len(ins.remaining),
                    !.iterations = @ + 1,
                    !.done = Len(ins.remaining) = 0 \/ st.iterations >= 2 * MaxSortInput,
                    !.sorted = IF Len(ins.remaining) # 0 /\ st.iterations >= 2 * MaxSortInput
                               THEN @ \o ins.remaining ELSE @]

\* A slip: on a stall the records left are put before the placed ones.
SortIterationStallFirst(st) ==
    LET canInsert == SelectSeq(st.remaining, LAMBDA cat : CanInsert(cat, st.inserted))
    IN  IF Len(canInsert) = 0
        THEN [st EXCEPT !.sorted = st.remaining \o @, !.iterations = @ + 1,
                        !.done = TRUE]
        ELSE LET ins == InsertAll(st, canInsert)
             IN  [ins EXCEPT !.previousLength = Len(ins.remaining),
                             !.iterations = @ + 1,
                             !.done = Len(ins.remaining) = 0]

\* One iteration of the while loop (iterations counts them).
SortIteration(st) ==
    LET canInsert == SelectSeq(st.remaining, LAMBDA cat : CanInsert(cat, st.inserted))
    IN  IF Len(canInsert) = 0
        THEN [st EXCEPT !.sorted = @ \o st.remaining, !.iterations = @ + 1,
                        !.done = TRUE]
        ELSE LET ins == InsertAll(st, canInsert)
             IN  IF Len(ins.remaining) = st.previousLength
                 THEN [ins EXCEPT !.sorted = @ \o ins.remaining,
                                  !.iterations = @ + 1, !.done = TRUE]
                 ELSE [ins EXCEPT !.previousLength = Len(ins.remaining),
                                  !.iterations = @ + 1,
                                  !.done = Len(ins.remaining) = 0]

RECURSIVE SortRun(_)
SortRun(st) == IF st.done THEN st ELSE SortRun(SortIteration(st))

sortCategoriesByDependency(categories) == SortRun(SortStart(categories)).sorted

(***************************************************************************)
(* RecipeRepository (src/src/db/repositories/recipes.ts).                  *)
(*                                                                         *)
(* A Recipe object given to the repository is a record with the field      *)
(* keys: the set of properties the object carries.  A property it does not *)
(* carry reads as undefined (None).  Rows hold in_trash and on_favorites   *)
(* as 0/1 and rating as a number, as prepareForSQLite writes them.         *)
(***************************************************************************)
RecipeKeys == {"name", "notes", "rating", "photo", "in_trash", "on_favorites"}

\* prepareForSQLite: x ?? null for text and blobs, rating ?? 0, flag ? 1 : 0.
prepareForSQLite(recipe) ==
    RecipeRow(recipe.name,
              recipe.notes,
              IF recipe.rating = None THEN 0 ELSE Val(recipe.rating),
              recipe.photo,
              IF recipe.in_trash = Some(TRUE) THEN 1 ELSE 0,
              IF recipe.on_favorites = Some(TRUE) THEN 1 ELSE 0)

\* A slip: INSERT OR REPLACE, a stored row is replaced.
RecipeCreateOrReplace(db, recipe) ==
    Ok([db EXCEPT !.recipes = Put(@, recipe.uid,
                                  Stamped(prepareForSQLite(recipe), CurrentTimestamp(now)))])

\* create: INSERT INTO recipes; raises on a stored uid (PRIMARY KEY).
RecipeCreate(db, recipe) ==
    IF recipe.uid \in DOMAIN db.recipes
    THEN Raised(db)
    ELSE Ok([db EXCEPT !.recipes = Put(@, recipe.uid,
                                       Stamped(prepareForSQLite(recipe),
                                               CurrentTimestamp(now)))])

\* A slip: the object given is written as it is, without the stored row.
MergedRowOverwrites(existing, recipe) == prepareForSQLite(recipe)

\* { ...existing, ...recipe, uid } then prepareForSQLite: a property the object
\* carries replaces the stored column, also when its value is undefined; a
\* property it does not carry keeps the stored column.
MergedRow(existing, recipe) ==
    LET given == prepareForSQLite(recipe)
    IN  [f \in RecipeKeys |-> IF f \in recipe.keys THEN given[f] ELSE existing[f]]

\* update: undefined and no statement on an unknown uid, else UPDATE recipes
\* SET every column, updated = new Date().toISOString(), and the row read back.
RecipeUpdate(db, uid, recipe) ==
    IF uid \notin DOMAIN db.recipes
    THEN Returned(db, "undefined")
    ELSE Returned([db EXCEPT !.recipes = Put(@, uid,
                                             Stamped(MergedRow(db.recipes[uid], recipe),
                                                     toISOString(now)))],
                  "row")

\* A slip: upsert always creates.
RecipeUpsertCreates(db, recipe) == RecipeCreate(db, recipe)

\* A slip: upsert only updates, a recipe that is not stored is not created.
RecipeUpsertUpdateOnly(db, recipe) == RecipeUpdate(db, recipe.uid, recipe)

\* A slip: upsert of a stored recipe writes the object given alone, a
\* property it does not carry becomes null or the default.
RecipeUpsertOverwrites(db, recipe) ==
    IF recipe.uid \in DOMAIN db.recipes
    THEN Returned([db EXCEPT !.recipes = Put(@, recipe.uid,
                                             Stamped(prepareForSQLite(recipe),
                                                     toISOString(now)))],
                  "row")
    ELSE RecipeCreate(db, recipe)

\* upsert: update the stored row, else create.
RecipeUpsert(db, recipe) ==
    IF recipe.uid \in DOMAIN db.recipes
    THEN RecipeUpdate(db, recipe.uid, recipe)
    ELSE RecipeCreate(db, recipe)

\* A slip: IN for NOT IN, the listed recipes are deleted.
RecipeHardDeleteListed(db, uids) ==
    LET after == Restrict(db.recipes, (DOMAIN db.recipes) \ Range(uids))
    IN  Ok([db EXCEPT !.recipes = after,
                      !.links = {l \in db.links : l[1] \in DOMAIN after}])

\* hardDeleteOutstanding(uids): DELETE FROM recipes [WHERE uid NOT IN (uids)],
\* with ON DELETE CASCADE on recipe_categories.recipe_uid.
RecipeHardDeleteOutstanding(db, uids) ==
    LET after == Restrict(db.recipes, Range(uids))
    IN  Ok([db EXCEPT !.recipes = after,
                      !.links = {l \in db.links : l[1] \in DOMAIN after}])

\* A slip: the soft delete removes the row.
RecipeDeleteRemovesRow(db, uid) ==
    IF uid \in DOMAIN db.recipes
    THEN Returned([db EXCEPT !.recipes = Restrict(@, (DOMAIN @) \ {uid}),
                             !.links = {l \in @ : l[1] # uid}],
                  "true")
    ELSE Returned(db, "false")

\* delete (soft): UPDATE recipes SET in_trash = 1, updated = CURRENT_TIMESTAMP
\* WHERE uid = ?; returns changes > 0.
RecipeDelete(db, uid) ==
    IF uid \in DOMAIN db.recipes
    THEN Returned([db EXCEPT !.recipes[uid] =
                       [@ EXCEPT !.in_trash = 1, !.updated = CurrentTimestamp(now)]],
                  "true")
    ELSE Returned(db, "false")

\* A slip: the recipe's rows of recipe_categories are left behind (no cascade).
RecipeHardDeleteNoCascade(db, uid) ==
    IF uid \in DOMAIN db.recipes
    THEN Returned([db EXCEPT !.recipes = Restrict(@, (DOMAIN @) \ {uid})], "true")
    ELSE Returned(db, "false")

\* hardDelete: DELETE FROM recipes WHERE uid = ?, with ON DELETE CASCADE on
\* recipe_categories.recipe_uid; returns changes > 0.
RecipeHardDelete(db, uid) ==
    IF uid \in DOMAIN db.recipes
    THEN Returned([db EXCEPT !.recipes = Restrict(@, (DOMAIN @) \ {uid}),
                             !.links = {l \in @ : l[1] # uid}],
                  "true")
    ELSE Returned(db, "false")

\* A slip: restore reports true whether or not a row was changed.
RecipeRestoreSaysTrue(db, uid) ==
    IF uid \in DOMAIN db.recipes
    THEN Returned([db EXCEPT !.recipes[uid] =
                       [@ EXCEPT !.in_trash = 0, !.updated = CurrentTimestamp(now)]],
                  "true")
    ELSE Returned(db, "true")

\* restore: UPDATE recipes SET in_trash = 0, updated = CURRENT_TIMESTAMP
\* WHERE uid = ?; returns changes > 0.
RecipeRestore(db, uid) ==
    IF uid \in DOMAIN db.recipes
    THEN Returned([db EXCEPT !.recipes[uid] =
                       [@ EXCEPT !.in_trash = 0, !.updated = CurrentTimestamp(now)]],
                  "true")
    ELSE Returned(db, "false")

\* A slip: toggleFavorite sets the flag instead of flipping it.
RecipeToggleFavoriteSets(db, uid) ==
    IF uid \notin DOMAIN db.recipes
    THEN Returned(db, "false")
    ELSE Returned([db EXCEPT !.recipes[uid] =
                       [@ EXCEPT !.on_favorites = 1,
                                 !.updated = CurrentTimestamp(now)]],
                  "true")

\* toggleFavorite: false on an unknown uid, else on_favorites ? 0 : 1 with
\* updated = CURRENT_TIMESTAMP; returns changes > 0.
RecipeToggleFavorite(db, uid) ==
    IF uid \notin DOMAIN db.recipes
    THEN Returned(db, "false")
    ELSE Returned([db EXCEPT !.recipes[uid] =
                       [@ EXCEPT !.on_favorites = IF @ # 0 THEN 0 ELSE 1,
                                 !.updated = CurrentTimestamp(now)]],
                  "true")

\* The recipe names of the model in the order of COLLATE NOCASE.
NameOrder == <<"Bread", "Chili", "Curry", "Stew">>

NoCaseRank(name) == CHOOSE i \in 1..Len(NameOrder) : NameOrder[i] = name

\* A row of SELECT * FROM recipes as the Recipe object it is read as.
Selected(db, uid) == [uid |-> uid, row |-> db.recipes[uid]]

\* getAll(includeTrash): SELECT * FROM recipes [WHERE in_trash = 0] ORDER BY
\* name COLLATE NOCASE.  The lists it may return: each selected row once,
\* by name; rows of one name come in any order.
getAll(db, includeTrash) ==
    LET uids == {u \in DOMAIN db.recipes : includeTrash \/ db.recipes[u].in_trash = 0}
        rank(u) == NoCaseRank(db.recipes[u].name)
        orders == {s \in [1..Cardinality(uids) -> uids] :
                      \A i, j \in 1..Cardinality(uids) :
                          i < j => s[i] # s[j] /\ rank(s[i]) <= rank(s[j])}
    IN  {[i \in 1..Len(s) |-> Selected(db, s[i])] : s \in orders}

\* getByUid: SELECT * FROM recipes WHERE uid = ?, undefined for no row.
getByUid(db, uid) ==
    IF uid \in DOMAIN db.recipes THEN Some(Selected(db, uid)) ELSE None

\* count(includeTrash): SELECT COUNT(*) FROM recipes [WHERE in_trash = 0].
count(db, includeTrash) ==
    Cardinality({u \in DOMAIN db.recipes : includeTrash \/ db.recipes[u].in_trash = 0})

\* linkCategories(recipeUid, categoryUids): the recipe's rows of
\* recipe_categories are replaced by one row per category uid; a row naming
\* a recipe or category that is not stored violates the table's foreign
\* keys and raises.  When it raises, either nothing was written (atomic) or
\* the old rows are gone and the rows before the failing one are written.
LinkCategories(db, recipeUid, categoryUids, atomic) ==
    LET cleared == {l \in db.links : l[1] # recipeUid}
        valid(c) == recipeUid \in DOMAIN db.recipes /\ c \in DOMAIN db.categories
        bad == {i \in 1..Len(categoryUids) : ~valid(categoryUids[i])}
        firstBad == CHOOSE i \in bad : \A j \in bad : i <= j
        written(n) == {<<recipeUid, categoryUids[i]>> : i \in 1..n}
    IN  IF bad = {}
        THEN Ok([db EXCEPT !.links = cleared \cup written(Len(categoryUids))])
        ELSE IF atomic THEN Raised(db)
        ELSE Raised([db EXCEPT !.links = cleared \cup written(firstBad - 1)])

(***************************************************************************)
(* The remote service and the local stores a run may start from.           *)
(***************************************************************************)
\* PaprikaCategory records (unnamed/part_011:35-40) the remote may list.
RemoteCategories ==
    {[uid |-> u, name |-> p.name, order_flag |-> p.order_flag, parent_uid |-> par] :
        u \in CategoryUids,
        p \in {[name |-> "Soups", order_flag |-> Some(1)],
               [name |-> "Mains", order_flag |-> None]},
        par \in {None} \cup {Some(c) : c \in CategoryUids}}

\* PaprikaRecipe records (unnamed/part_011:7-33) a detail fetch may return,
\* for each uid.
RemoteDetails ==
    {[uid |-> u, name |-> d.name, notes |-> d.notes, rating |-> d.rating,
      in_trash |-> d.in_trash, on_favorites |-> d.on_favorites,
      categories |-> d.categories] :
        u \in RecipeUids,
        d \in {[name |-> "Chili", notes |-> None, rating |-> None,
                in_trash |-> None, on_favorites |-> None, categories |-> None],
               [name |-> "Chili", notes |-> Some("hot"), rating |-> Some(4),
                in_trash |-> Some(FALSE), on_favorites |-> Some(TRUE),
                categories |-> Some(<<"c1", "c2">>)],
               [name |-> "Curry", notes |-> Some("mild"), rating |-> Some(0),
                in_trash |-> Some(TRUE), on_favorites |-> Some(FALSE),
                categories |-> Some(<<"c2", "c3">>)],
               [name |-> "Curry", notes |-> None, rating |-> Some(5),
                in_trash |-> None, on_favorites |-> Some(TRUE),
                categories |-> Some(<< >>)]}}

\* The entries of a remote recipe index (uid; the optional name is not read).
RemoteIndexEntries == {[uid |-> u] : u \in RecipeUids}

\* Stored rows written at time 0: one as create leaves it, one as update does.
PlainRecipe == Stamped(RecipeRow("Chili", None, 0, None, 0, 0), CurrentTimestamp(0))
KeptRecipe == Stamped(RecipeRow("Bread", Some("old"), 3, Some("jpg"), 1, 1), toISOString(0))

\* A stored category row written at time 0.
StoredCategory(name, order_flag, parent_uid) ==
    Stamped(CategoryRow(name, order_flag, parent_uid), CurrentTimestamp(0))

\* Local databases a pass may find: each satisfies the schema's foreign keys.
InitialDbs ==
    { EmptyDb,
      [recipes |-> [u \in {"r1", "r2"} |-> IF u = "r1" THEN KeptRecipe ELSE PlainRecipe],
       categories |-> [u \in {"c1", "c2"} |->
                          IF u = "c1" THEN StoredCategory("Soups", Some(1), None)
                          ELSE StoredCategory("Old", Some(2), Some("c1"))],
       links |-> {<<"r1", "c1">>, <<"r1", "c2">>, <<"r2", "c2">>}],
      [recipes |-> [u \in {"r2", "r3"} |-> IF u = "r2" THEN KeptRecipe ELSE PlainRecipe],
       categories |-> [u \in {"c1", "c2", "c3"} |->
                          IF u = "c3" THEN StoredCategory("Old", None, None)
                          ELSE IF u = "c1" THEN StoredCategory("Mains", None, Some("c3"))
                          ELSE StoredCategory("Soups", Some(1), Some("c1"))],
       links |-> {<<"r2", "c3">>, <<"r3", "c1">>, <<"r3", "c2">>}],
      [recipes |-> [u \in {"r1", "r2", "r3"} |-> IF u = "r3" THEN KeptRecipe ELSE PlainRecipe],
       categories |-> [u \in {"c1", "c2", "c3"} |-> StoredCategory("Old", Some(2), None)],
       links |-> {<<"r1", "c1">>, <<"r3", "c2">>, <<"r3", "c3">>}] }

(***************************************************************************)
(* SyncService (src/src/services/sync.ts).                                 *)
(***************************************************************************)
VARIABLES
    db,          \* the SQLite database
    pc,          \* where the running pass is suspended, or how it ended
    status,      \* the pass's SyncStatus object
    onProgress,  \* whether the caller gave a progress callback
    progress,    \* what the callback was called with, in order
    calls,       \* the remote and repository calls of the pass, in order
    categories,  \* the list listCategories returned
    recipeList,  \* the index listRecipes returned
    item,        \* position in recipeList of the entry being processed
    initialDb,   \* the database when the pass started
    error,       \* the error the pass raised to its caller, if any
    sortInput,   \* the sorter run alone: its input
    sortState,   \* the sorter run alone: its loop state
    last,        \* the repositories called alone: the last call made
    prev,        \* the repositories called alone: the call before it
    request,     \* the single-recipe operation of the service under way
    tui          \* the state of the terminal UI (AppProvider) and its last key

vars == <<db, pc, status, onProgress, progress, calls, categories, recipeList,
          item, initialDb, error, sortInput, sortState, now, last, prev, request,
          tui>>

syncVars == <<db, pc, status, onProgress, progress, calls, categories, recipeList,
              item, initialDb, error>>

\* The status literal both passes start from.
NewStatus ==
    [total |-> 0, synced |-> 0, failed |-> 0, errors |-> << >>,
     categories |-> [total |-> 0, synced |-> 0]]

\* One call of the pass: the operation, the uid it was given ("" for none),
\* the uids it was given (hardDeleteOutstanding, linkCategories), and
\* whether it returned.
Call(op, uid, ok) == [op |-> op, uid |-> uid, keep |-> << >>, ok |-> ok]
CallDelete(op, keep, ok) == [op |-> op, uid |-> "", keep |-> keep, ok |-> ok]

\* list.map((c) => c.uid)
Uids(list) == [i \in 1..Len(list) |-> list[i].uid]

\* onProgress(status) hands over the status object itself (shared), and
\* onProgress({ ...status }) a copy of its top level; the value is what the
\* callback sees when called.
Report(log, given, shared, st) ==
    IF given THEN Append(log, [shared |-> shared, status |-> st]) ELSE log

\* new Error(`Failed to sync ...: ${message}`): the error a pass wraps.
Wrapped(prefix, cause) == Some([prefix |-> prefix, cause |-> cause])

\* A slip: an upsert that raises is skipped and the loop goes on.
RECURSIVE UpsertCategoriesGoesOn(_, _, _)
UpsertCategoriesGoesOn(acc, sorted, fault) ==
    IF sorted = << >> THEN acc
    ELSE LET category == Head(sorted)
             r == IF fault = Len(acc.calls)
                  THEN Raised(acc.db)
                  ELSE CategoryUpsert(acc.db, category)
             st == [acc.status EXCEPT !.categories.synced = @ + 1]
         IN  IF ~r.ok
             THEN UpsertCategoriesGoesOn(
                      [acc EXCEPT !.calls = Append(@, Call("categories.upsert", category.uid, FALSE))],
                      Tail(sorted), fault)
             ELSE UpsertCategoriesGoesOn(
                      [acc EXCEPT !.db = r.db, !.status = st,
                                  !.progress = Report(@, acc.given, FALSE, st),
                                  !.calls = Append(@, Call("categories.upsert", category.uid, TRUE))],
                      Tail(sorted), fault)

\* The for loop of syncCategories over the sorted list: upsert, count, report;
\* the first upsert that raises ends it.  fault is the number of the upsert at
\* which the database itself fails (0: none).
RECURSIVE UpsertCategories(_, _, _)
UpsertCategories(acc, sorted, fault) ==
    IF sorted = << >> THEN acc
    ELSE LET category == Head(sorted)
             r == IF fault = acc.status.categories.synced + 1
                  THEN Raised(acc.db)
                  ELSE CategoryUpsert(acc.db, category)
             st == [acc.status EXCEPT !.categories.synced = @ + 1]
         IN  IF ~r.ok
             THEN [acc EXCEPT !.ok = FALSE,
                              !.calls = Append(@, Call("categories.upsert", category.uid, FALSE))]
             ELSE UpsertCategories(
                      [acc EXCEPT !.db = r.db, !.status = st,
                                  !.progress = Report(@, acc.given, FALSE, st),
                                  !.calls = Append(@, Call("categories.upsert", category.uid, TRUE))],
                      Tail(sorted), fault)

\* A slip: the list is upserted as listed, without the sorter.
SyncCategoriesBodyUnsorted(db0, given, list, fault) ==
    LET st0 == [NewStatus EXCEPT !.categories.total = Len(list)]
        start == [db |-> db0, status |-> st0, given |-> given, ok |-> TRUE,
                  progress |-> Report(<< >>, given, TRUE, st0),
                  calls |-> <<Call("listCategories", "", TRUE)>>]
        up == UpsertCategories(start, list, fault)
        del == CategoryHardDeleteOutstanding(up.db, Uids(list))
    IN  IF ~up.ok THEN up
        ELSE [up EXCEPT !.db = del.db, !.ok = del.ok,
                        !.calls = Append(@, CallDelete("categories.hardDeleteOutstanding",
                                                       Uids(list), del.ok))]

\* syncCategories from the return of listCategories to its end.
SyncCategoriesBody(db0, given, list, fault) ==
    LET st0 == [NewStatus EXCEPT !.categories.total = Len(list)]
        start == [db |-> db0, status |-> st0, given |-> given, ok |-> TRUE,
                  progress |-> Report(<< >>, given, TRUE, st0),
                  calls |-> <<Call("listCategories", "", TRUE)>>]
        sorted == sortCategoriesByDependency(list)
        up == UpsertCategories(start, sorted, fault)
        del == CategoryHardDeleteOutstanding(up.db, Uids(list))
    IN  IF ~up.ok THEN up
        ELSE [up EXCEPT !.db = del.db, !.ok = del.ok,
                        !.calls = Append(@, CallDelete("categories.hardDeleteOutstanding",
                                                       Uids(list), del.ok))]

\* No single-recipe operation of the service was called.
NoRequest == [op |-> "", uid |-> ""]

\* The state AppProvider starts with (its useState initial values), the
\* process running and no key pressed yet.
InitialAppState ==
    [activePaneId |-> "list", searchQuery |-> << >>, isSearchActive |-> FALSE,
     showHelp |-> FALSE, selectedCategoryUids |-> << >>,
     isCategoryFilterActive |-> FALSE, exited |-> FALSE, pressed |-> None]

Idle ==
    /\ pc = "idle"
    /\ request = NoRequest
    /\ tui = InitialAppState
    /\ status = NewStatus /\ progress = << >> /\ calls = << >>
    /\ categories = << >> /\ recipeList = << >> /\ item = 0 /\ error = None
    /\ onProgress = FALSE

SortIdle == sortInput = << >> /\ sortState = SortStart(<< >>)

\* No repository call made alone yet.
NoCall ==
    [op |-> "", uid |-> "", entity |-> None, keep |-> << >>, returned |-> "",
     seq |-> 0, before |-> EmptyDb]

RepoIdle == now = 0 /\ last = NoCall /\ prev = NoCall

Init ==
    /\ db \in InitialDbs
    /\ initialDb = db
    /\ Idle
    /\ SortIdle
    /\ RepoIdle

\* syncCategories is called: the status is built and listCategories awaited.
StartSyncCategories(given) ==
    /\ pc = "idle"
    /\ pc' = "listCategories"
    /\ onProgress' = given
    /\ status' = NewStatus
    /\ UNCHANGED <<db, progress, calls, categories, recipeList, item, initialDb, error>>

\* listCategories rejects: the catch wraps the error.
ListCategoriesFails ==
    /\ pc = "listCategories"
    /\ pc' = "categoriesRaised"
    /\ calls' = Append(calls, Call("listCategories", "", FALSE))
    /\ error' = Wrapped("Failed to sync categories: ", "listCategories")
    /\ UNCHANGED <<db, status, onProgress, progress, categories, recipeList, item, initialDb>>

\* listCategories resolves with list: the rest of syncCategories runs.
ListCategoriesReturns(list, fault) ==
    /\ pc = "listCategories"
    /\ LET run == SyncCategoriesBody(db, onProgress, list, fault)
       IN  /\ db' = run.db
           /\ status' = run.status
           /\ progress' = run.progress
           /\ calls' = run.calls
           /\ pc' = IF run.ok THEN "categoriesReturned" ELSE "categoriesRaised"
           /\ error' = IF run.ok THEN None
                       ELSE Wrapped("Failed to sync categories: ", run.calls[Len(run.calls)].op)
    /\ categories' = list
    /\ UNCHANGED <<onProgress, recipeList, item, initialDb>>

\* A slip: the mapping leaves in_trash out, as it leaves the photo out.
convertToDbRecipeKeepsTrash(apiRecipe) ==
    [uid |-> apiRecipe.uid,
     keys |-> RecipeKeys \ {"photo", "in_trash"},
     name |-> apiRecipe.name,
     notes |-> apiRecipe.notes,
     rating |-> Some(IF apiRecipe.rating = None THEN 0 ELSE Val(apiRecipe.rating)),
     photo |-> None,
     in_trash |-> None,
     on_favorites |-> Some(apiRecipe.on_favorites = Some(TRUE))]

\* convertToDbRecipe: the Recipe object built from a fetched detail.  It
\* carries every property but photo (and photo_large); rating || 0 and
\* flag || false.
convertToDbRecipe(apiRecipe) ==
    [uid |-> apiRecipe.uid,
     keys |-> RecipeKeys \ {"photo"},
     name |-> apiRecipe.name,
     notes |-> apiRecipe.notes,
     rating |-> Some(IF apiRecipe.rating = None THEN 0 ELSE Val(apiRecipe.rating)),
     photo |-> None,
     in_trash |-> Some(apiRecipe.in_trash = Some(TRUE)),
     on_favorites |-> Some(apiRecipe.on_favorites = Some(TRUE))]

\* syncRecipes is called: the status is built and listRecipes awaited.
StartSyncRecipes(given) ==
    /\ pc = "idle"
    /\ pc' = "listRecipes"
    /\ onProgress' = given
    /\ status' = NewStatus
    /\ UNCHANGED <<db, progress, calls, categories, recipeList, item, initialDb, error>>

\* A slip: the pass never prunes the local recipes.
AfterListRecipesNoDelete(list) ==
    LET st == [status EXCEPT !.total = Len(list)]
    IN  /\ status' = st
        /\ progress' = Report(progress, onProgress, TRUE, st)
        /\ db' = db
        /\ recipeList' = list
        /\ calls' = Append(calls, Call("listRecipes", "", TRUE))
        /\ IF Len(list) = 0
           THEN pc' = "recipesReturned" /\ item' = 0
           ELSE pc' = "getRecipe" /\ item' = 1

\* What syncRecipes does from the return of listRecipes to its first await:
\* total, the first report, hardDeleteOutstanding, and the first getRecipe
\* (or the return, on an empty index).
AfterListRecipes(list) ==
    LET st == [status EXCEPT !.total = Len(list)]
        del == RecipeHardDeleteOutstanding(db, Uids(list))
        done == <<Call("listRecipes", "", TRUE),
                  CallDelete("recipes.hardDeleteOutstanding", Uids(list), TRUE)>>
    IN  /\ status' = st
        /\ progress' = Report(progress, onProgress, TRUE, st)
        /\ db' = del.db
        /\ recipeList' = list
        /\ calls' = calls \o done
        /\ IF Len(list) = 0
           THEN pc' = "recipesReturned" /\ item' = 0
           ELSE pc' = "getRecipe" /\ item' = 1

\* A slip: the rejection is swallowed and the pass goes on with an empty index.
ListRecipesFailsGoesOn ==
    /\ pc = "listRecipes"
    /\ pc' = "recipesReturned"
    /\ calls' = Append(Append(calls, Call("listRecipes", "", FALSE)),
                       CallDelete("recipes.hardDeleteOutstanding", << >>, TRUE))
    /\ db' = RecipeHardDeleteOutstanding(db, << >>).db
    /\ UNCHANGED <<status, onProgress, progress, categories, recipeList, item, initialDb, error>>

\* listRecipes rejects: the catch wraps the error.
ListRecipesFails ==
    /\ pc = "listRecipes"
    /\ pc' = "recipesRaised"
    /\ calls' = Append(calls, Call("listRecipes", "", FALSE))
    /\ error' = Wrapped("Failed to sync recipes: ", "listRecipes")
    /\ UNCHANGED <<db, status, onProgress, progress, categories, recipeList, item, initialDb>>

\* listRecipes resolves with list.
ListRecipesReturns(list) ==
    /\ pc = "listRecipes"
    /\ AfterListRecipes(list)
    /\ UNCHANGED <<onProgress, categories, initialDb, error>>

\* A slip: a failing entry ends the pass.
ItemFailedAborts(db1, done, cause) ==
    /\ db' = db1
    /\ status' = status
    /\ progress' = progress
    /\ calls' = calls \o done
    /\ pc' = "recipesRaised"

\* A slip: a failing entry is counted as synced too.
ItemFailedCountsSynced(db1, done, cause) ==
    LET st == [status EXCEPT !.synced = @ + 1, !.failed = @ + 1,
                             !.errors = Append(@, [uid |-> recipeList[item].uid,
                                                   error |-> cause])]
    IN  /\ db' = db1
        /\ status' = st
        /\ progress' = Report(progress, onProgress, FALSE, st)
        /\ calls' = calls \o done
        /\ pc' = "delay"

\* The catch of the per-item try: failed, errors, report; then the delay.
ItemFailed(db1, done, cause) ==
    LET st == [status EXCEPT !.failed = @ + 1,
                             !.errors = Append(@, [uid |-> recipeList[item].uid,
                                                   error |-> cause])]
    IN  /\ db' = db1
        /\ status' = st
        /\ progress' = Report(progress, onProgress, FALSE, st)
        /\ calls' = calls \o done
        /\ pc' = "delay"

\* A slip: an entry that was synced is not reported.
ItemSyncedNoReport(db1, done) ==
    LET st == [status EXCEPT !.synced = @ + 1]
    IN  /\ db' = db1
        /\ status' = st
        /\ progress' = progress
        /\ calls' = calls \o done
        /\ pc' = "delay"

\* The end of the per-item try: synced, report; then the delay.
ItemSynced(db1, done) ==
    LET st == [status EXCEPT !.synced = @ + 1]
    IN  /\ db' = db1
        /\ status' = st
        /\ progress' = Report(progress, onProgress, FALSE, st)
        /\ calls' = calls \o done
        /\ pc' = "delay"

\* getRecipe(item.uid) rejects.
GetRecipeFails ==
    /\ pc = "getRecipe"
    /\ ItemFailed(db, <<Call("getRecipe", recipeList[item].uid, FALSE)>>, "getRecipe")
    /\ UNCHANGED <<onProgress, categories, recipeList, item, initialDb, error>>

\* A slip: linkCategories is called only for a detail that has categories.
GetRecipeReturnsLinksOnlySome(apiRecipe, fault, atomic) ==
    /\ pc = "getRecipe"
    /\ LET dbRecipe == convertToDbRecipe(apiRecipe)
           up == IF fault THEN Raised(db) ELSE RecipeUpsert(db, dbRecipe)
           has == apiRecipe.categories # None /\ Len(Val(apiRecipe.categories)) > 0
           uids == IF has THEN Val(apiRecipe.categories) ELSE << >>
           link == IF has THEN LinkCategories(up.db, apiRecipe.uid, uids, atomic) ELSE Ok(up.db)
           fetched == Call("getRecipe", recipeList[item].uid, TRUE)
           upserted == Call("recipes.upsert", dbRecipe.uid, up.ok)
           linked == [CallDelete("recipes.linkCategories", uids, link.ok)
                          EXCEPT !.uid = apiRecipe.uid]
       IN  IF ~up.ok THEN ItemFailed(up.db, <<fetched, upserted>>, "upsert")
           ELSE IF ~link.ok THEN ItemFailed(link.db, <<fetched, upserted, linked>>, "linkCategories")
           ELSE IF has THEN ItemSynced(link.db, <<fetched, upserted, linked>>)
           ELSE ItemSynced(link.db, <<fetched, upserted>>)
    /\ UNCHANGED <<onProgress, categories, recipeList, item, initialDb, error>>

\* getRecipe(item.uid) resolves with apiRecipe: convert, upsert, link.
\* fault: the database itself fails at the upsert; atomic: how a raising
\* linkCategories leaves the links.
GetRecipeReturns(apiRecipe, fault, atomic) ==
    /\ pc = "getRecipe"
    /\ LET dbRecipe == convertToDbRecipe(apiRecipe)
           up == IF fault THEN Raised(db) ELSE RecipeUpsert(db, dbRecipe)
           uids == IF apiRecipe.categories # None /\ Len(Val(apiRecipe.categories)) > 0
                   THEN Val(apiRecipe.categories)
                   ELSE << >>
           link == LinkCategories(up.db, apiRecipe.uid, uids, atomic)
           fetched == Call("getRecipe", recipeList[item].uid, TRUE)
           upserted == Call("recipes.upsert", dbRecipe.uid, up.ok)
           linked == [CallDelete("recipes.linkCategories", uids, link.ok)
                          EXCEPT !.uid = apiRecipe.uid]
       IN  IF ~up.ok THEN ItemFailed(up.db, <<fetched, upserted>>, "upsert")
           ELSE IF ~link.ok THEN ItemFailed(link.db, <<fetched, upserted, linked>>, "linkCategories")
           ELSE ItemSynced(link.db, <<fetched, upserted, linked>>)
    /\ UNCHANGED <<onProgress, categories, recipeList, item, initialDb, error>>

\* A slip: an entry that failed is fetched again after the delay.
DelayElapsedRetries ==
    /\ pc = "delay"
    /\ IF ~calls[Len(calls)].ok
       THEN pc' = "getRecipe" /\ item' = item
       ELSE IF item = Len(recipeList)
            THEN pc' = "recipesReturned" /\ item' = item
            ELSE pc' = "getRecipe" /\ item' = item + 1
    /\ UNCHANGED <<db, status, onProgress, progress, calls, categories, recipeList,
                   initialDb, error>>

\* The delay after an entry elapses: the next entry's getRecipe, or the return.
DelayElapsed ==
    /\ pc = "delay"
    /\ IF item = Len(recipeList)
       THEN pc' = "recipesReturned" /\ item' = item
       ELSE pc' = "getRecipe" /\ item' = item + 1
    /\ UNCHANGED <<db, status, onProgress, progress, calls, categories, recipeList,
                   initialDb, error>>

RemoteCategoryLists == SeqsUpTo(RemoteCategories, MaxCategories)
RemoteIndexes == SeqsUpTo(RemoteIndexEntries, MaxIndex)

Next ==
    \/ \E given \in BOOLEAN : StartSyncCategories(given) /\ UNCHANGED <<sortInput, sortState, now, last, prev, request, tui>>
    \/ ListCategoriesFails /\ UNCHANGED <<sortInput, sortState, now, last, prev, request, tui>>
    \/ /\ pc = "listCategories"
       /\ \E list \in RemoteCategoryLists : \E fault \in 0..Len(list) :
              ListCategoriesReturns(list, fault)
       /\ UNCHANGED <<sortInput, sortState, now, last, prev, request, tui>>
    \/ \E given \in BOOLEAN : StartSyncRecipes(given) /\ UNCHANGED <<sortInput, sortState, now, last, prev, request, tui>>
    \/ ListRecipesFails /\ UNCHANGED <<sortInput, sortState, now, last, prev, request, tui>>
    \/ /\ pc = "listRecipes"
       /\ \E list \in RemoteIndexes : ListRecipesReturns(list)
       /\ UNCHANGED <<sortInput, sortState, now, last, prev, request, tui>>
    \/ GetRecipeFails /\ UNCHANGED <<sortInput, sortState, now, last, prev, request, tui>>
    \/ /\ pc = "getRecipe"
       /\ \E apiRecipe \in RemoteDetails : \E fault \in BOOLEAN :
              \E atomic \in IF fault THEN {TRUE} ELSE BOOLEAN :
                  GetRecipeReturns(apiRecipe, fault, atomic)
       /\ UNCHANGED <<sortInput, sortState, now, last, prev, request, tui>>
    \/ DelayElapsed /\ UNCHANGED <<sortInput, sortState, now, last, prev, request, tui>>

Spec == Init /\ [][Next]_vars

(***************************************************************************)
(* The sorter run alone, one loop iteration per step.                      *)
(***************************************************************************)
\* Records for the sorter: uid and parent_uid are all it reads.  "c9" is a
\* parent_uid that names no record.
SortRecords ==
    {[uid |-> u, name |-> "Soups", order_flag |-> None, parent_uid |-> par] :
        u \in CategoryUids,
        par \in {None} \cup {Some(c) : c \in CategoryUids \cup {"c9"}}}

SortInit ==
    /\ db = EmptyDb /\ initialDb = db
    /\ Idle
    /\ sortInput \in SeqsUpTo(SortRecords, MaxSortInput)
    /\ sortState = SortStart(sortInput)
    /\ RepoIdle

SortStep ==
    /\ ~sortState.done
    /\ sortState' = SortIteration(sortState)
    /\ UNCHANGED sortInput
    /\ UNCHANGED syncVars
    /\ UNCHANGED <<now, last, prev, request, tui>>

SortNext == SortStep

SortSpec == SortInit /\ [][SortNext]_vars

(***************************************************************************)
(* The repositories called alone: a caller makes up to MaxCalls calls of   *)
(* RecipeRepository and CategoryRepository on a database, and the clock    *)
(* may tick between them.                                                  *)
(***************************************************************************)
MaxCalls == 2           \* calls made in a run of the repositories alone
MaxClock == 1           \* ticks of the clock in such a run

RepoRecipeUids == {"r1", "r3"}

\* Recipe objects given to create and upsert: one that carries every
\* property, and the objects the sync mapping builds (no photo).
RecipeEntities ==
    {[uid |-> u, keys |-> RecipeKeys, name |-> "Stew", notes |-> Some("new"),
      rating |-> Some(5), photo |-> Some("png"), in_trash |-> Some(TRUE),
      on_favorites |-> Some(FALSE)] : u \in RepoRecipeUids}
    \cup {convertToDbRecipe(d) :
              d \in {x \in RemoteDetails : x.uid \in RepoRecipeUids /\ x.name = "Chili"
                                           /\ x.notes = None}}

\* Partial<Recipe> objects given to update: a name; notes carried as
\* undefined, with a flag; nothing.
PartialRecipes ==
    {[keys |-> {"name"}, name |-> "Stew", notes |-> None, rating |-> None,
      photo |-> None, in_trash |-> None, on_favorites |-> None],
     [keys |-> {"notes", "on_favorites"}, name |-> "", notes |-> None, rating |-> None,
      photo |-> None, in_trash |-> None, on_favorites |-> Some(TRUE)],
     [keys |-> {}, name |-> "", notes |-> None, rating |-> None,
      photo |-> None, in_trash |-> None, on_favorites |-> None]}

\* Category objects given to create and upsert.
CategoryEntities ==
    {c \in RemoteCategories :
        /\ c.name = "Mains" /\ c.uid \in {"c1", "c2"}
        /\ c.parent_uid \in {None, Some("c1"), Some("c3")}}

\* The uid lists given to hardDeleteOutstanding: no uid twice, in any order.
KeepLists(S, n) ==
    {uids \in SeqsUpTo(S, n) : \A i, j \in 1..Len(uids) : i # j => uids[i] # uids[j]}

RecipeKeepLists == KeepLists(RepoRecipeUids, MaxIndex)
CategoryKeepLists == KeepLists(CategoryUids, MaxCategories)

\* The SqliteError code of a raising INSERT or UPDATE of a row with a uid:
\* the primary key is checked at the row, the foreign keys when the
\* statement ends.
ConstraintError(stored, uid, inserting) ==
    IF inserting /\ uid \in stored THEN "SQLITE_CONSTRAINT_PRIMARYKEY"
    ELSE "SQLITE_CONSTRAINT_FOREIGNKEY"

\* result.changes > 0 of a DELETE that left the uids after of the uids before.
Changed(before, after) == IF before # after THEN "true" ELSE "false"

\* A call was made and gave r back: the database is what it left, and the
\* call is the last one.
Called(op, uid, entity, keep, r, returned) ==
    /\ last.seq < MaxCalls
    /\ db' = r.db
    /\ prev' = [last EXCEPT !.before = EmptyDb]
    /\ last' = [op |-> op, uid |-> uid, entity |-> entity, keep |-> keep,
                returned |-> returned, seq |-> last.seq + 1, before |-> db]
    /\ UNCHANGED now

CallRecipeCreate(recipe) ==
    LET r == RecipeCreate(db, recipe)
    IN  Called("recipes.create", recipe.uid, Some(recipe), << >>, r,
               IF r.ok THEN "row" ELSE ConstraintError(DOMAIN db.recipes, recipe.uid, TRUE))

CallRecipeUpdate(uid, recipe) ==
    LET r == RecipeUpdate(db, uid, recipe)
    IN  Called("recipes.update", uid, Some(recipe), << >>, r, r.value)

CallRecipeUpsert(recipe) ==
    LET r == RecipeUpsert(db, recipe)
    IN  Called("recipes.upsert", recipe.uid, Some(recipe), << >>, r,
               IF r.ok THEN "row" ELSE ConstraintError(DOMAIN db.recipes, recipe.uid, TRUE))

CallRecipeDelete(uid) ==
    LET r == RecipeDelete(db, uid)
    IN  Called("recipes.delete", uid, None, << >>, r, r.value)

CallRecipeHardDelete(uid) ==
    LET r == RecipeHardDelete(db, uid)
    IN  Called("recipes.hardDelete", uid, None, << >>, r, r.value)

CallRecipeRestore(uid) ==
    LET r == RecipeRestore(db, uid)
    IN  Called("recipes.restore", uid, None, << >>, r, r.value)

CallRecipeToggleFavorite(uid) ==
    LET r == RecipeToggleFavorite(db, uid)
    IN  Called("recipes.toggleFavorite", uid, None, << >>, r, r.value)

CallRecipeHardDeleteOutstanding(uids) ==
    LET r == RecipeHardDeleteOutstanding(db, uids)
    IN  Called("recipes.hardDeleteOutstanding", "", None, uids, r,
               Changed(DOMAIN db.recipes, DOMAIN r.db.recipes))

CallCategoryCreate(category) ==
    LET r == CategoryCreate(db, category)
    IN  Called("categories.create", category.uid, Some(category), << >>, r,
               IF r.ok THEN "row"
               ELSE ConstraintError(DOMAIN db.categories, category.uid, TRUE))

CallCategoryUpsert(category) ==
    LET r == CategoryUpsert(db, category)
    IN  Called("categories.upsert", category.uid, Some(category), << >>, r,
               IF r.ok THEN "row"
               ELSE ConstraintError(DOMAIN db.categories, category.uid,
                                    category.uid \notin DOMAIN db.categories))

CallCategoryHardDeleteOutstanding(uids) ==
    LET r == CategoryHardDeleteOutstanding(db, uids)
    IN  Called("categories.hardDeleteOutstanding", "", None, uids, r,
               IF r.ok THEN Changed(DOMAIN db.categories, DOMAIN r.db.categories)
               ELSE "SQLITE_CONSTRAINT_FOREIGNKEY")

\* The clock moves on.
Tick ==
    /\ now < MaxClock
    /\ now' = now + 1
    /\ UNCHANGED <<db, last, prev>>

RepoInit ==
    /\ db \in InitialDbs
    /\ initialDb = db
    /\ Idle
    /\ SortIdle
    /\ RepoIdle

\* What a call of a repository alone leaves untouched: the passes and the sorter.
passVars == <<pc, status, onProgress, progress, calls, categories, recipeList,
              item, initialDb, error, sortInput, sortState, request, tui>>

RepoNext ==
    \/ \E recipe \in RecipeEntities : CallRecipeCreate(recipe) /\ UNCHANGED passVars
    \/ \E uid \in RepoRecipeUids : \E recipe \in PartialRecipes :
           CallRecipeUpdate(uid, recipe) /\ UNCHANGED passVars
    \/ \E recipe \in RecipeEntities : CallRecipeUpsert(recipe) /\ UNCHANGED passVars
    \/ \E uid \in RepoRecipeUids : CallRecipeDelete(uid) /\ UNCHANGED passVars
    \/ \E uid \in RepoRecipeUids : CallRecipeHardDelete(uid) /\ UNCHANGED passVars
    \/ \E uid \in RepoRecipeUids : CallRecipeRestore(uid) /\ UNCHANGED passVars
    \/ \E uid \in RepoRecipeUids : CallRecipeToggleFavorite(uid) /\ UNCHANGED passVars
    \/ \E uids \in RecipeKeepLists :
           CallRecipeHardDeleteOutstanding(uids) /\ UNCHANGED passVars
    \/ \E category \in CategoryEntities : CallCategoryCreate(category) /\ UNCHANGED passVars
    \/ \E category \in CategoryEntities : CallCategoryUpsert(category) /\ UNCHANGED passVars
    \/ \E uids \in CategoryKeepLists :
           CallCategoryHardDeleteOutstanding(uids) /\ UNCHANGED passVars
    \/ Tick /\ UNCHANGED passVars

RepoSpec == RepoInit /\ [][RepoNext]_vars

(***************************************************************************)
(* The single-recipe operations of SyncService: syncRecipe, pushRecipe and *)
(* deleteRecipe, one call on a database, each remote call resolving or     *)
(* rejecting.                                                              *)
(***************************************************************************)
\* convertToApiRecipe: the Partial<PaprikaRecipe> built from a stored row,
\* the columns handed over as they are read (flags as 0/1); no photo.
convertToApiRecipe(dbRecipe) ==
    [uid |-> dbRecipe.uid,
     name |-> dbRecipe.row.name,
     notes |-> dbRecipe.row.notes,
     rating |-> Some(dbRecipe.row.rating),
     in_trash |-> Some(dbRecipe.row.in_trash),
     on_favorites |-> Some(dbRecipe.row.on_favorites)]

\* new Error(`Recipe ${uid} not found in database`)
NotFound(uid) == Some([prefix |-> "Recipe not found in database: ", cause |-> uid])

\* The rejection of a remote call, passed on as it is.
Rejected(op) == Some([prefix |-> "", cause |-> op])

\* What the single-recipe operations leave untouched.
serviceFrame == <<status, onProgress, progress, categories, recipeList, item,
                  initialDb, sortInput, sortState, now, last, prev, tui>>

\* syncRecipe(uid) is called: getRecipe(uid) is awaited.
SyncRecipeCalled(uid) ==
    /\ pc = "idle"
    /\ request' = [op |-> "syncRecipe", uid |-> uid]
    /\ pc' = "syncRecipeFetch"
    /\ UNCHANGED <<db, calls, error>>

\* getRecipe rejects: so does syncRecipe.
SyncRecipeFetchFails ==
    /\ pc = "syncRecipeFetch"
    /\ calls' = Append(calls, Call("getRecipe", request.uid, FALSE))
    /\ pc' = "syncRecipeRaised"
    /\ error' = Rejected("getRecipe")
    /\ UNCHANGED <<db, request>>

\* getRecipe resolves with apiRecipe: convert, upsert, return the row.
SyncRecipeFetchReturns(apiRecipe) ==
    /\ pc = "syncRecipeFetch"
    /\ LET dbRecipe == convertToDbRecipe(apiRecipe)
           up == RecipeUpsert(db, dbRecipe)
       IN  /\ db' = up.db
           /\ calls' = calls \o <<Call("getRecipe", request.uid, TRUE),
                                  Call("recipes.upsert", dbRecipe.uid, up.ok)>>
           /\ pc' = IF up.ok THEN "syncRecipeReturned" ELSE "syncRecipeRaised"
           /\ error' = IF up.ok THEN None ELSE Rejected("recipes.upsert")
    /\ UNCHANGED request

\* pushRecipe(uid) is called: it raises if the recipe is not stored, else
\* builds the remote record and awaits the probe getRecipe(uid).
PushRecipeCalled(uid) ==
    /\ pc = "idle"
    /\ request' = [op |-> "pushRecipe", uid |-> uid]
    /\ IF getByUid(db, uid) = None
       THEN pc' = "pushRaised" /\ error' = NotFound(uid)
       ELSE pc' = "pushProbe" /\ error' = error
    /\ UNCHANGED <<db, calls>>

\* The probe rejects: the catch awaits createRecipe(apiRecipe).
PushProbeFails ==
    /\ pc = "pushProbe"
    /\ calls' = Append(calls, Call("getRecipe", request.uid, FALSE))
    /\ pc' = "pushCreate"
    /\ UNCHANGED <<db, error, request>>

\* The probe resolves: updateRecipe(uid, apiRecipe) is awaited.
PushProbeReturns ==
    /\ pc = "pushProbe"
    /\ calls' = Append(calls, Call("getRecipe", request.uid, TRUE))
    /\ pc' = "pushUpdate"
    /\ UNCHANGED <<db, error, request>>

\* updateRecipe resolves: pushRecipe returns.
PushUpdateReturns ==
    /\ pc = "pushUpdate"
    /\ calls' = Append(calls, Call("updateRecipe", request.uid, TRUE))
    /\ pc' = "pushReturned"
    /\ UNCHANGED <<db, error, request>>

\* updateRecipe rejects inside the same try: the catch awaits
\* createRecipe(apiRecipe).
PushUpdateFails ==
    /\ pc = "pushUpdate"
    /\ calls' = Append(calls, Call("updateRecipe", request.uid, FALSE))
    /\ pc' = "pushCreate"
    /\ UNCHANGED <<db, error, request>>

\* createRecipe resolves: pushRecipe returns.
PushCreateReturns ==
    /\ pc = "pushCreate"
    /\ LET apiRecipe == convertToApiRecipe(Val(getByUid(db, request.uid)))
       IN  calls' = Append(calls, Call("createRecipe", apiRecipe.uid, TRUE))
    /\ pc' = "pushReturned"
    /\ UNCHANGED <<db, error, request>>

\* createRecipe rejects, in the catch: pushRecipe rejects with its error.
PushCreateFails ==
    /\ pc = "pushCreate"
    /\ LET apiRecipe == convertToApiRecipe(Val(getByUid(db, request.uid)))
       IN  calls' = Append(calls, Call("createRecipe", apiRecipe.uid, FALSE))
    /\ pc' = "pushRaised"
    /\ error' = Rejected("createRecipe")
    /\ UNCHANGED <<db, request>>

\* A slip: the local row is hard-deleted before the remote delete is awaited.
DeleteRecipeCalledLocalFirst(uid) ==
    /\ pc = "idle"
    /\ request' = [op |-> "deleteRecipe", uid |-> uid]
    /\ pc' = "deleteRemote"
    /\ db' = RecipeHardDelete(db, uid).db
    /\ calls' = Append(calls, Call("recipes.hardDelete", uid, TRUE))
    /\ UNCHANGED error

\* deleteRecipe(uid) is called: the remote deleteRecipe(uid) is awaited.
DeleteRecipeCalled(uid) ==
    /\ pc = "idle"
    /\ request' = [op |-> "deleteRecipe", uid |-> uid]
    /\ pc' = "deleteRemote"
    /\ UNCHANGED <<db, calls, error>>

\* The remote deleteRecipe rejects: so does deleteRecipe, the store untouched.
DeleteRemoteFails ==
    /\ pc = "deleteRemote"
    /\ calls' = Append(calls, Call("deleteRecipe", request.uid, FALSE))
    /\ pc' = "deleteRaised"
    /\ error' = Rejected("deleteRecipe")
    /\ UNCHANGED <<db, request>>

\* The remote deleteRecipe resolves: hardDelete(uid), and deleteRecipe returns.
DeleteRemoteReturns ==
    /\ pc = "deleteRemote"
    /\ db' = RecipeHardDelete(db, request.uid).db
    /\ calls' = calls \o <<Call("deleteRecipe", request.uid, TRUE),
                           Call("recipes.hardDelete", request.uid, TRUE)>>
    /\ pc' = "deleteReturned"
    /\ UNCHANGED <<error, request>>

ServiceInit ==
    /\ db \in InitialDbs
    /\ initialDb = db
    /\ Idle
    /\ SortIdle
    /\ RepoIdle

ServiceNext ==
    \/ \E uid \in RecipeUids : SyncRecipeCalled(uid) /\ UNCHANGED serviceFrame
    \/ SyncRecipeFetchFails /\ UNCHANGED serviceFrame
    \/ /\ pc = "syncRecipeFetch"
       /\ \E apiRecipe \in RemoteDetails : SyncRecipeFetchReturns(apiRecipe)
       /\ UNCHANGED serviceFrame
    \/ \E uid \in RecipeUids : PushRecipeCalled(uid) /\ UNCHANGED serviceFrame
    \/ PushProbeFails /\ UNCHANGED serviceFrame
    \/ PushProbeReturns /\ UNCHANGED serviceFrame
    \/ PushUpdateReturns /\ UNCHANGED serviceFrame
    \/ PushUpdateFails /\ UNCHANGED serviceFrame
    \/ PushCreateReturns /\ UNCHANGED serviceFrame
    \/ PushCreateFails /\ UNCHANGED serviceFrame
    \/ \E uid \in RecipeUids : DeleteRecipeCalled(uid) /\ UNCHANGED serviceFrame
    \/ DeleteRemoteFails /\ UNCHANGED serviceFrame
    \/ DeleteRemoteReturns /\ UNCHANGED serviceFrame

ServiceSpec == ServiceInit /\ [][ServiceNext]_vars

(***************************************************************************)
(* The sync command (SyncApp, performSync): syncCategories, then           *)
(* syncRecipes, each with a progress callback; calls and progress go on    *)
(* from the category pass into the recipe pass.                            *)
(***************************************************************************)
\* The records the remote lists in a run of the command: a root and its child.
CommandCategories ==
    {c \in RemoteCategories :
        /\ c.name = "Mains"
        /\ \/ c.uid = "c1" /\ c.parent_uid = None
           \/ c.uid = "c2" /\ c.parent_uid = Some("c1")}

CommandCategoryLists == SeqsUpTo(CommandCategories, MaxCategories)

\* The details the remote returns in a run of the command, for the uid
\* asked for: one with no optional property, one with categories the
\* category pass may have stored, and one that is in the trash remotely.
CommandDetails == {d \in RemoteDetails : d.name = "Chili" \/ d.in_trash = Some(TRUE)}

\* performSync starts: syncCategories is called with a callback.
PerformSync == StartSyncCategories(TRUE)

\* A slip: the failure of syncCategories is swallowed and syncRecipes is
\* called all the same.
SyncRecipesAfterCategoriesOrFailure ==
    /\ pc \in {"categoriesReturned", "categoriesRaised"}
    /\ pc' = "listRecipes"
    /\ onProgress' = TRUE
    /\ status' = NewStatus
    /\ UNCHANGED <<db, progress, calls, categories, recipeList, item, initialDb, error>>

\* await syncCategories(...) has resolved: syncRecipes is called with a
\* callback, builds its status and awaits listRecipes.
SyncRecipesAfterCategories ==
    /\ pc = "categoriesReturned"
    /\ pc' = "listRecipes"
    /\ onProgress' = TRUE
    /\ status' = NewStatus
    /\ UNCHANGED <<db, progress, calls, categories, recipeList, item, initialDb, error>>

\* await syncRecipes(...) has resolved: the final status is shown and the
\* run is complete.
PerformSyncCompletes ==
    /\ pc = "recipesReturned"
    /\ pc' = "syncComplete"
    /\ UNCHANGED <<db, status, onProgress, progress, calls, categories, recipeList,
                   item, initialDb, error>>

\* One of the two awaits rejected: the catch shows the error, nothing else
\* is called.
PerformSyncCatches ==
    /\ pc \in {"categoriesRaised", "recipesRaised"}
    /\ pc' = "syncError"
    /\ UNCHANGED <<db, status, onProgress, progress, calls, categories, recipeList,
                   item, initialDb, error>>

\* What a step of the command leaves untouched.
commandFrame == <<sortInput, sortState, now, last, prev, request, tui>>

CommandInit ==
    /\ db \in InitialDbs
    /\ initialDb = db
    /\ Idle
    /\ SortIdle
    /\ RepoIdle

CommandNext ==
    \/ PerformSync /\ UNCHANGED commandFrame
    \/ ListCategoriesFails /\ UNCHANGED commandFrame
    \/ /\ pc = "listCategories"
       /\ \E list \in CommandCategoryLists : \E fault \in 0..Len(list) :
              ListCategoriesReturns(list, fault)
       /\ UNCHANGED commandFrame
    \/ SyncRecipesAfterCategories /\ UNCHANGED commandFrame
    \/ ListRecipesFails /\ UNCHANGED commandFrame
    \/ /\ pc = "listRecipes"
       /\ \E list \in RemoteIndexes : ListRecipesReturns(list)
       /\ UNCHANGED commandFrame
    \/ GetRecipeFails /\ UNCHANGED commandFrame
    \/ /\ pc = "getRecipe"
       /\ \E apiRecipe \in {d \in CommandDetails : d.uid = recipeList[item].uid} :
              \E fault \in BOOLEAN : \E atomic \in IF fault THEN {TRUE} ELSE BOOLEAN :
                  GetRecipeReturns(apiRecipe, fault, atomic)
       /\ UNCHANGED commandFrame
    \/ DelayElapsed /\ UNCHANGED commandFrame
    \/ PerformSyncCompletes /\ UNCHANGED commandFrame
    \/ PerformSyncCatches /\ UNCHANGED commandFrame

CommandSpec == CommandInit /\ [][CommandNext]_vars

(***************************************************************************)
(* The objects the progress callback is given.                             *)
(***************************************************************************)
\* What a callback that kept the object it was given reads from it now,
\* during the pass that made the call.  The object of a pass's first call is
\* the pass's status object itself (onProgress(status)); that of a later
\* call is { ...status }, a new object with the counts of the call's time
\* whose errors and categories properties refer to the status object's own
\* errors array and categories object.
Held(entry) ==
    IF entry.shared THEN status
    ELSE [entry.status EXCEPT !.errors = status.errors,
                              !.categories = status.categories]

(***************************************************************************)
(* The repository calls that write or remove rows of categories and of     *)
(* recipe_categories, called alone: up to MaxCalls of them on a database.  *)
(***************************************************************************)
\* The uid lists given to linkCategories.
LinkLists == {<< >>, <<"c1">>, <<"c1", "c3">>, <<"c3", "c2">>}

\* Category objects given to upsert: those of the repositories called
\* alone and the ones that name c2 as their parent, so that two stored
\* categories can come to name each other.
StoreCategoryEntities ==
    CategoryEntities
    \cup {c \in RemoteCategories :
              c.name = "Mains" /\ c.uid \in {"c1", "c2"} /\ c.parent_uid = Some("c2")}

CallRecipeLinkCategories(uid, categoryUids, atomic) ==
    LET r == LinkCategories(db, uid, categoryUids, atomic)
    IN  Called("recipes.linkCategories", uid, None, categoryUids, r,
               IF r.ok THEN "undefined" ELSE "SQLITE_CONSTRAINT_FOREIGNKEY")

StoreInit ==
    /\ db \in InitialDbs
    /\ initialDb = db
    /\ Idle
    /\ SortIdle
    /\ RepoIdle

StoreNext ==
    \/ \E recipe \in RecipeEntities : CallRecipeUpsert(recipe) /\ UNCHANGED passVars
    \/ \E uid \in RepoRecipeUids : CallRecipeHardDelete(uid) /\ UNCHANGED passVars
    \/ \E uids \in RecipeKeepLists :
           CallRecipeHardDeleteOutstanding(uids) /\ UNCHANGED passVars
    \/ \E category \in StoreCategoryEntities : CallCategoryUpsert(category) /\ UNCHANGED passVars
    \/ \E uids \in CategoryKeepLists :
           CallCategoryHardDeleteOutstanding(uids) /\ UNCHANGED passVars
    \/ \E uid \in RepoRecipeUids : \E categoryUids \in LinkLists : \E atomic \in BOOLEAN :
           CallRecipeLinkCategories(uid, categoryUids, atomic) /\ UNCHANGED passVars

StoreSpec == StoreInit /\ [][StoreNext]_vars

(***************************************************************************)
(* The terminal UI: the useInput handlers of Layout and of the category    *)
(* filter pane over the state of AppProvider, one key per render.          *)
(***************************************************************************)
MaxQuery == 2           \* longest search query typed

\* The key object of a keypress with no special key and no modifier.
NoKey ==
    [ctrl |-> FALSE, meta |-> FALSE, shift |-> FALSE, escape |-> FALSE,
     tab |-> FALSE, backspace |-> FALSE, delete |-> FALSE,
     leftArrow |-> FALSE, rightArrow |-> FALSE, return |-> FALSE]

\* The printable characters typed in the model.
PrintableCharacters == {"a", "q", "?", "x", "c", "/", " "}

\* The (input, key) pairs the handlers are called with: a printable
\* character, Ctrl+C, and the special keys (their input is empty).
Keypresses ==
    {[input |-> ch, key |-> NoKey] : ch \in PrintableCharacters}
    \cup {[input |-> "c", key |-> [NoKey EXCEPT !.ctrl = TRUE]]}
    \cup {[input |-> "", key |-> k] :
              k \in {[NoKey EXCEPT !.escape = TRUE],
                     [NoKey EXCEPT !.backspace = TRUE],
                     [NoKey EXCEPT !.delete = TRUE],
                     [NoKey EXCEPT !.tab = TRUE],
                     [NoKey EXCEPT !.tab = TRUE, !.shift = TRUE],
                     [NoKey EXCEPT !.leftArrow = TRUE],
                     [NoKey EXCEPT !.rightArrow = TRUE]}}

\* The categories the category filter pane lists (none has a child).
TuiCategoryUids == {"c1", "c2"}

\* visiblePanes
VisiblePanes(state) ==
    IF state.isCategoryFilterActive THEN <<"categories", "list", "detail">>
    ELSE <<"list", "detail">>

\* visiblePanes.indexOf(current): from 0, -1 when absent.
IndexOfPane(panes, current) ==
    IF \E i \in 1..Len(panes) : panes[i] = current
    THEN (CHOOSE i \in 1..Len(panes) : panes[i] = current) - 1
    ELSE -1

nextPane(state, current) ==
    LET panes == VisiblePanes(state)
    IN  panes[((IndexOfPane(panes, current) + 1) % Len(panes)) + 1]

prevPane(state, current) ==
    LET panes == VisiblePanes(state)
    IN  panes[((IndexOfPane(panes, current) - 1 + Len(panes)) % Len(panes)) + 1]

\* toggleHelp: setShowHelp((prev) => !prev)
toggleHelp(state) == [state EXCEPT !.showHelp = ~@]

\* searchQuery.slice(0, -1)
DropLast(query) == IF query = << >> THEN << >> ELSE SubSeq(query, 1, Len(query) - 1)

\* The useInput handler of Layout: the state after it has run with
\* (input, key) on the state of the last render.
LayoutInput(state, input, key) ==
    IF (key.ctrl /\ input = "c") \/ input = "q" THEN [state EXCEPT !.exited = TRUE]
    ELSE IF input = "?" THEN toggleHelp(state)
    ELSE IF state.showHelp /\ key.escape THEN toggleHelp(state)
    ELSE IF state.showHelp THEN state
    ELSE IF state.activePaneId = "categories"
         THEN IF input = "c"
              THEN [state EXCEPT !.isCategoryFilterActive = FALSE, !.activePaneId = "list"]
              ELSE IF key.tab /\ ~key.shift
                   THEN [state EXCEPT !.activePaneId = nextPane(state, @)]
              ELSE IF key.tab /\ key.shift
                   THEN [state EXCEPT !.activePaneId = prevPane(state, @)]
              ELSE IF key.rightArrow THEN [state EXCEPT !.activePaneId = "list"]
              ELSE state
    ELSE IF input = "c" /\ ~state.isSearchActive
         THEN IF state.isCategoryFilterActive
              THEN [state EXCEPT !.isCategoryFilterActive = FALSE, !.activePaneId = "list"]
              ELSE [state EXCEPT !.isCategoryFilterActive = TRUE,
                                 !.activePaneId = "categories"]
    ELSE IF input = "x" /\ state.activePaneId = "list"
                /\ Len(state.selectedCategoryUids) > 0
         THEN [state EXCEPT !.selectedCategoryUids = << >>]
    ELSE IF state.isSearchActive
         THEN IF key.escape THEN [state EXCEPT !.isSearchActive = FALSE]
              ELSE IF key.backspace \/ key.delete
                   THEN [state EXCEPT !.searchQuery = DropLast(@)]
              ELSE IF input # "" /\ ~key.ctrl /\ ~key.meta
                   THEN [state EXCEPT !.searchQuery = Append(@, input)]
              ELSE state
    ELSE IF input = "/" /\ state.activePaneId = "list"
         THEN [state EXCEPT !.isSearchActive = TRUE]
    ELSE IF key.escape /\ state.searchQuery # << >>
         THEN [state EXCEPT !.searchQuery = << >>]
    ELSE IF key.tab /\ ~key.shift THEN [state EXCEPT !.activePaneId = nextPane(state, @)]
    ELSE IF key.tab /\ key.shift THEN [state EXCEPT !.activePaneId = prevPane(state, @)]
    ELSE IF key.leftArrow /\ state.activePaneId = "detail"
         THEN [state EXCEPT !.activePaneId = "list"]
    ELSE IF key.leftArrow /\ state.activePaneId = "list" /\ state.isCategoryFilterActive
         THEN [state EXCEPT !.activePaneId = "categories"]
    ELSE IF key.rightArrow /\ state.activePaneId = "list"
         THEN [state EXCEPT !.activePaneId = "detail"]
    ELSE state

\* toggleCategoryFilter(uid) for a category with no descendants: the uid is
\* removed if selected, added at the end if not.
toggleCategoryFilter(state, uid) ==
    IF uid \in Range(state.selectedCategoryUids)
    THEN [state EXCEPT !.selectedCategoryUids = SelectSeq(@, LAMBDA u : u # uid)]
    ELSE [state EXCEPT !.selectedCategoryUids = Append(@, uid)]

\* The useInput handler of CategoryFilterPane, with the cursor on the
\* category uid: Space or Enter toggles it, x clears the selection, Escape
\* closes the pane.
CategoryPaneInput(state, input, key, uid) ==
    IF input = " " \/ key.return THEN toggleCategoryFilter(state, uid)
    ELSE IF input = "x" THEN [state EXCEPT !.selectedCategoryUids = << >>]
    ELSE IF key.escape
         THEN [state EXCEPT !.isCategoryFilterActive = FALSE, !.activePaneId = "list"]
    ELSE state

\* A key is pressed while the process runs: Layout's handler is called, and
\* the category pane's too when that pane is rendered and focused
\* (isActive: isFocused; the help overlay replaces the panes).
KeyPressed(input, key, uid) ==
    /\ ~tui.exited
    /\ LET paneActive == tui.activePaneId = "categories" /\ ~tui.showHelp
           layout == LayoutInput(tui, input, key)
           after == IF paneActive /\ ~layout.exited
                    THEN CategoryPaneInput(layout, input, key, uid)
                    ELSE layout
       IN  /\ Len(after.searchQuery) <= MaxQuery
           /\ tui' = [after EXCEPT !.pressed = Some([input |-> input, key |-> key])]

\* What a key leaves untouched: the store, the passes, the sorter, the calls.
tuiFrame == <<db, pc, status, onProgress, progress, calls, categories, recipeList,
              item, initialDb, error, sortInput, sortState, now, last, prev, request>>

TuiInit ==
    /\ db = EmptyDb /\ initialDb = db
    /\ Idle
    /\ SortIdle
    /\ RepoIdle

TuiNext ==
    \E k \in Keypresses : \E uid \in TuiCategoryUids :
        KeyPressed(k.input, k.key, uid) /\ UNCHANGED tuiFrame

TuiSpec == TuiInit /\ [][TuiNext]_vars

(***************************************************************************)
(* Properties.                                                             *)
(***************************************************************************)
\* The pass under way got its list: it is a recipe pass, a category pass.
RecipePass == calls # << >> /\ calls[1].op = "listRecipes" /\ calls[1].ok
CategoryPass == calls # << >> /\ calls[1].op = "listCategories" /\ calls[1].ok

IndexUids == Range(Uids(recipeList))

CallsOf(ops) == {k \in 1..Len(calls) : calls[k].op \in ops}

\* Every detail fetched so far carried the uid of the index entry it was
\* fetched for (what was upserted is what was asked for).
DetailsCarryEntryUid ==
    \A k \in CallsOf({"recipes.upsert"}) :
        k > 1 /\ calls[k-1].op = "getRecipe" /\ calls[k-1].uid = calls[k].uid

DistinctUids(list) ==
    \A i, j \in 1..Len(list) : i # j => list[i].uid # list[j].uid

\* The uid of the index entry in whose processing call k was made.
EntryOfCall(k) ==
    LET fetches == {j \in 1..k : calls[j].op = "getRecipe"}
    IN  calls[CHOOSE j \in fetches : \A i \in fetches : i <= j].uid

\* The entries with a call that raised, among the first k calls, in order.
RECURSIVE FailedEntries(_)
FailedEntries(k) ==
    IF k = 0 THEN << >>
    ELSE IF ~calls[k].ok THEN Append(FailedEntries(k - 1), EntryOfCall(k))
    ELSE FailedEntries(k - 1)

\* The uids getRecipe was called with so far, in order.
RECURSIVE FetchedUids(_)
FetchedUids(k) ==
    IF k = 0 THEN << >>
    ELSE IF calls[k].op = "getRecipe" THEN Append(FetchedUids(k - 1), calls[k].uid)
    ELSE FetchedUids(k - 1)

\* C1: when syncRecipes has returned its status, every stored recipe has a
\* uid of the remote index, whatever failed on the way, provided each
\* fetched detail carried the uid of its index entry.
C1_StoredRecipesAreInIndex ==
    (pc = "recipesReturned" /\ DetailsCarryEntryUid)
        => DOMAIN db.recipes \subseteq IndexUids

\* A pass returned that pruned a stale recipe, synced an entry and failed on another.
C1_Witness ==
    /\ pc = "recipesReturned" /\ DetailsCarryEntryUid
    /\ status.failed > 0 /\ status.synced > 0
    /\ \E u \in DOMAIN initialDb.recipes : u \notin IndexUids

\* C2 as stated: with distinct index uids and every fetch, upsert and link
\* succeeding, the stored uids are the index uids, synced = total, failed = 0
\* and errors is empty.
C2_AsStated ==
    (pc = "recipesReturned" /\ DistinctUids(recipeList) /\ \A k \in 1..Len(calls) : calls[k].ok)
        => /\ DOMAIN db.recipes = IndexUids
           /\ status.synced = status.total
           /\ status.failed = 0
           /\ status.errors = << >>

\* C2, amended: the same, provided each fetched detail carried the uid of
\* its index entry.
C2_ConvergesWhenDetailsMatch ==
    (/\ pc = "recipesReturned" /\ DistinctUids(recipeList)
     /\ \A k \in 1..Len(calls) : calls[k].ok
     /\ DetailsCarryEntryUid)
        => /\ DOMAIN db.recipes = IndexUids
           /\ status.synced = status.total
           /\ status.failed = 0
           /\ status.errors = << >>

\* An all-successful pass over two entries that created one recipe and pruned another.
C2_Witness ==
    /\ pc = "recipesReturned" /\ DistinctUids(recipeList) /\ Len(recipeList) = 2
    /\ \A k \in 1..Len(calls) : calls[k].ok
    /\ DetailsCarryEntryUid
    /\ \E u \in IndexUids : u \notin DOMAIN initialDb.recipes
    /\ \E u \in DOMAIN initialDb.recipes : u \notin IndexUids

\* C3: once the index is fetched the pass never raises; the entries are
\* fetched in index order whatever failed before them, a fetched detail is
\* always upserted, and the entries that failed are exactly, once each and
\* in order, those of status.errors, status.failed counting them.
C3_ItemFailureNeverAborts ==
    RecipePass =>
        /\ pc \in {"getRecipe", "delay", "recipesReturned"}
        /\ error = None
        /\ LET fetched == FetchedUids(Len(calls))
           IN  /\ Len(fetched) <= Len(recipeList)
               /\ fetched = SubSeq(Uids(recipeList), 1, Len(fetched))
               /\ pc = "recipesReturned" => Len(fetched) = Len(recipeList)
        /\ \A k \in CallsOf({"getRecipe"}) :
               calls[k].ok => (k < Len(calls) /\ calls[k+1].op = "recipes.upsert")
        /\ Uids(status.errors) = FailedEntries(Len(calls))
        /\ status.failed = Len(FailedEntries(Len(calls)))

\* A returned pass whose first entry failed and whose second was upserted.
C3_Witness ==
    /\ pc = "recipesReturned" /\ Len(recipeList) = 2
    /\ status.failed = 1
    /\ \E k \in 1..Len(calls) : \E m \in 1..Len(calls) :
           k < m /\ ~calls[k].ok /\ calls[m].op = "recipes.upsert" /\ calls[m].ok

\* The index entries processed so far.
Processed == Cardinality(CallsOf({"getRecipe"}))

\* C4: in a recipe pass, at every progress callback and in every state up
\* to the return, synced + failed is the number of entries processed,
\* errors has failed entries and total is the length of the index; at the
\* return synced + failed = total.
C4_CountsAddUp ==
    RecipePass =>
        /\ status.total = Len(recipeList)
        /\ Len(status.errors) = status.failed
        /\ status.synced + status.failed = Processed
        /\ pc = "recipesReturned" => status.synced + status.failed = status.total
        /\ \A j \in 1..Len(progress) :
               /\ progress[j].status.synced + progress[j].status.failed = j - 1
               /\ Len(progress[j].status.errors) = progress[j].status.failed
               /\ progress[j].status.total = Len(recipeList)

\* A returned pass with a callback, one entry synced and one failed.
C4_Witness ==
    /\ pc = "recipesReturned" /\ onProgress /\ Len(progress) = 3
    /\ status.synced = 1 /\ status.failed = 1

\* C5: a pass whose list fetch failed raised a wrapped error and returned
\* nothing, recorded no error entry, reported nothing and made no other
\* call: the database is as it was.
C5_ListFailureIsFatal ==
    (calls # << >> /\ calls[1].op \in {"listCategories", "listRecipes"} /\ ~calls[1].ok)
        => /\ pc = (IF calls[1].op = "listRecipes" THEN "recipesRaised" ELSE "categoriesRaised")
           /\ error = Wrapped(IF calls[1].op = "listRecipes"
                              THEN "Failed to sync recipes: "
                              ELSE "Failed to sync categories: ", calls[1].op)
           /\ Len(calls) = 1
           /\ status.errors = << >>
           /\ progress = << >>
           /\ db = initialDb

\* listRecipes failed over a database that holds recipes.
C5_Witness ==
    /\ pc = "recipesRaised" /\ calls # << >> /\ ~calls[1].ok
    /\ DOMAIN db.recipes # {}

\* C6: in a recipe pass hardDeleteOutstanding, given the uids of the index,
\* is the call right after listRecipes, and the only one of its kind: every
\* getRecipe, upsert and linkCategories comes after it.
C6_DeleteBeforeFirstFetch ==
    /\ pc = "listRecipes" => calls = << >>
    /\ RecipePass =>
           /\ Len(calls) >= 2
           /\ calls[2].op = "recipes.hardDeleteOutstanding"
           /\ calls[2].keep = Uids(recipeList)
           /\ CallsOf({"recipes.hardDeleteOutstanding"}) = {2}
           /\ \A k \in CallsOf({"getRecipe", "recipes.upsert", "recipes.linkCategories"}) : k > 2

\* An entry was upserted in a pass that started with a recipe outside the index.
C6_Witness ==
    /\ RecipePass /\ pc = "delay"
    /\ \E k \in CallsOf({"recipes.upsert"}) : calls[k].ok
    /\ \E u \in DOMAIN initialDb.recipes : u \notin IndexUids

\* C7: in a category pass the upserts are made in the sorter's order, one
\* call per record; hardDeleteOutstanding is called at most once, as the
\* last call, after as many successful upserts as the list has records,
\* with the uids of the list; a pass that returned made that call.
C7_UpsertsInSortedOrderThenDelete ==
    CategoryPass =>
        LET sorted == sortCategoriesByDependency(categories)
            upserts == CallsOf({"categories.upsert"})
            deletes == CallsOf({"categories.hardDeleteOutstanding"})
        IN  /\ upserts = 2..(Cardinality(upserts) + 1)
            /\ Cardinality(upserts) <= Len(sorted)
            /\ \A k \in upserts : calls[k].uid = sorted[k-1].uid
            /\ Cardinality(deletes) <= 1
            /\ \A d \in deletes :
                   /\ d = Len(calls)
                   /\ Cardinality(upserts) = Len(categories)
                   /\ \A k \in upserts : calls[k].ok
                   /\ calls[d].keep = Uids(categories)
            /\ pc = "categoriesReturned" => Cardinality(deletes) = 1

\* A returned pass over two records that the sorter reordered.
C7_Witness ==
    /\ pc = "categoriesReturned" /\ Len(categories) = 2
    /\ sortCategoriesByDependency(categories) # categories

\* The record of the last successful upsert of uid u before the failing call.
LastUpserted(u) ==
    LET sorted == sortCategoriesByDependency(categories)
        mine == {k \in 2..(Len(calls) - 1) : calls[k].uid = u}
    IN  sorted[(CHOOSE k \in mine : \A i \in mine : i <= k) - 1]

\* C8: when an upsert of a category pass raised, the pass raised the
\* wrapped error, that upsert is the last call (no later upsert, no
\* hardDeleteOutstanding), status.errors is empty, the records upserted
\* before it are stored as given, and every category stored before the
\* pass is still stored (untouched if it was not upserted); recipes are
\* as they were.
C8_CategoryUpsertFailureAborts ==
    (CategoryPass /\ \E k \in CallsOf({"categories.upsert"}) : ~calls[k].ok)
        => /\ pc = "categoriesRaised"
           /\ error = Wrapped("Failed to sync categories: ", "categories.upsert")
           /\ \A k \in 1..Len(calls) : ~calls[k].ok <=> k = Len(calls)
           /\ CallsOf({"categories.hardDeleteOutstanding"}) = {}
           /\ status.errors = << >>
           /\ LET before == {calls[k].uid : k \in 2..(Len(calls) - 1)}
              IN  /\ DOMAIN db.categories = DOMAIN initialDb.categories \cup before
                  /\ \A u \in before :
                         Columns(db.categories[u]) = CategoryRowOf(LastUpserted(u))
                  /\ \A u \in DOMAIN initialDb.categories \ before :
                         db.categories[u] = initialDb.categories[u]
           /\ db.recipes = initialDb.recipes

\* The second upsert raised after the first had changed the store.
C8_Witness ==
    /\ pc = "categoriesRaised" /\ Len(calls) = 3 /\ ~calls[3].ok
    /\ calls[3].op = "categories.upsert"
    /\ db # initialDb
    /\ DOMAIN initialDb.categories # {}

\* Following parent_uid from uid u leads to a root in at most n steps.
RECURSIVE ReachesRoot(_, _, _)
ReachesRoot(list, u, n) ==
    LET r == list[CHOOSE i \in 1..Len(list) : list[i].uid = u]
    IN  IF r.parent_uid = None THEN TRUE
        ELSE IF n = 0 THEN FALSE
        ELSE ReachesRoot(list, Val(r.parent_uid), n - 1)

\* Distinct uids, every non-null parent_uid names a record, no cycle.
WellFormedForest(list) ==
    /\ DistinctUids(list)
    /\ \A i \in 1..Len(list) :
           list[i].parent_uid # None => Val(list[i].parent_uid) \in Range(Uids(list))
    /\ \A i \in 1..Len(list) : ReachesRoot(list, list[i].uid, Len(list))

\* C9: when a category pass over a well-formed forest has returned, the
\* stored categories are exactly the listed ones: the same uids, each with
\* the listed name, order_flag and parent_uid.
C9_StoreHoldsRemoteForest ==
    (pc = "categoriesReturned" /\ WellFormedForest(categories))
        => /\ DOMAIN db.categories = Range(Uids(categories))
           /\ \A i \in 1..Len(categories) :
                  Columns(db.categories[categories[i].uid]) =
                      CategoryRow(categories[i].name, categories[i].order_flag,
                                  categories[i].parent_uid)

\* A returned pass over a child listed before its parent, in a store that
\* held three other-looking categories.
C9_Witness ==
    /\ pc = "categoriesReturned" /\ WellFormedForest(categories)
    /\ Len(categories) = 2
    /\ categories[1].parent_uid = Some(categories[2].uid)
    /\ Cardinality(DOMAIN initialDb.categories) = 3
    /\ \A u \in DOMAIN db.categories : db.categories[u] # initialDb.categories[u]

\* Every record whose parent_uid names a record of s comes after such a record.
ParentsFirst(s) ==
    \A i \in 1..Len(s) :
        (s[i].parent_uid # None /\ Val(s[i].parent_uid) \in Range(Uids(s)))
            => \E j \in 1..(i - 1) : s[j].uid = Val(s[i].parent_uid)

\* C10: the sorter's output for a well-formed forest has every record
\* after its parent record, whatever the input order.
C10_ForestSortedParentsFirst ==
    (sortState.done /\ WellFormedForest(sortInput)) => ParentsFirst(sortState.sorted)

\* The sorter finished on a chain of three listed child first.
C10_Witness ==
    /\ sortState.done /\ WellFormedForest(sortInput) /\ Len(sortInput) = 3
    /\ sortInput[1].parent_uid = Some(sortInput[2].uid)
    /\ sortInput[2].parent_uid = Some(sortInput[3].uid)
    /\ sortState.sorted # sortInput

\* How many times the record r occurs in the list s.
Occurrences(s, r) == Cardinality({i \in 1..Len(s) : s[i] = r})

\* C11: for an input list with distinct uids, whatever its parent_uids
\* (cycles, self-parents, parents that name no record), the sorter's output
\* holds each input record exactly once and nothing else.
C11_OutputIsPermutation ==
    (sortState.done /\ DistinctUids(sortInput))
        => /\ Len(sortState.sorted) = Len(sortInput)
           /\ \A r \in Range(sortInput) \cup Range(sortState.sorted) :
                  Occurrences(sortState.sorted, r) = 1 /\ Occurrences(sortInput, r) = 1

\* Three records, a root and a cycle of two: the root was placed, the cycle
\* was appended verbatim by the second iteration.
C11_Witness ==
    /\ sortState.done /\ DistinctUids(sortInput) /\ Len(sortInput) = 3
    /\ \E i, j \in 1..3 :
           /\ i # j
           /\ sortInput[i].parent_uid = Some(sortInput[j].uid)
           /\ sortInput[j].parent_uid = Some(sortInput[i].uid)
    /\ \E i \in 1..3 : sortInput[i].parent_uid = None
    /\ sortState.iterations = 2

\* C12: the sorter's loop ends on every input list, after at most as many
\* iterations as the list has records: the iterations made never exceed the
\* length of the input, and the loop is over when they reach it.
C12_IterationsBoundedByLength ==
    /\ sortState.iterations <= Len(sortInput)
    /\ sortState.iterations = Len(sortInput) => sortState.done
    /\ ~sortState.done => Len(sortState.remaining) > 0

\* The loop ended after three iterations on three records: two placed one
\* by one, then one that names a parent outside the list.
C12_Witness ==
    /\ sortState.done /\ Len(sortInput) = 3 /\ sortState.iterations = 3
    /\ \E i \in 1..3 : sortInput[i].parent_uid = Some("c9")

\* The last repository call, made alone, was op.
LastWas(op) == last.op = op

\* C13: hardDeleteOutstanding(uids), of recipes and of categories, returns
\* and leaves stored exactly the rows stored before whose uid is among uids
\* (the recipes as they were); given no uid it leaves no row of that kind.
C13_DeleteOutstandingKeepsListed ==
    /\ LastWas("recipes.hardDeleteOutstanding") =>
           /\ last.returned \in {"true", "false"}
           /\ DOMAIN db.recipes = (DOMAIN last.before.recipes) \cap Range(last.keep)
           /\ \A u \in DOMAIN db.recipes : db.recipes[u] = last.before.recipes[u]
           /\ last.keep = << >> => db.recipes = EmptyFn
           /\ db.categories = last.before.categories
    /\ LastWas("categories.hardDeleteOutstanding") =>
           /\ last.returned \in {"true", "false"}
           /\ DOMAIN db.categories = (DOMAIN last.before.categories) \cap Range(last.keep)
           /\ last.keep = << >> => db.categories = EmptyFn
           /\ db.recipes = last.before.recipes

\* Categories were pruned, one removed and one kept, with a listed uid that
\* was not stored, right after recipes were pruned to nothing.
C13_Witness ==
    /\ LastWas("categories.hardDeleteOutstanding")
    /\ \E u \in DOMAIN last.before.categories : u \notin DOMAIN db.categories
    /\ db.categories # EmptyFn
    /\ \E u \in Range(last.keep) : u \notin DOMAIN last.before.categories
    /\ prev.op = "recipes.hardDeleteOutstanding" /\ prev.keep = << >>
    /\ prev.returned = "true"

\* C14: after the categories' hardDeleteOutstanding(uids) every surviving
\* category has the name and order_flag it had; its parent_uid is null if it
\* named a category outside uids, and is what it was otherwise.
C14_SurvivorsOrphanedOnlyOfRemovedParents ==
    LastWas("categories.hardDeleteOutstanding") =>
        \A u \in DOMAIN db.categories :
            LET old == last.before.categories[u]
                new == db.categories[u]
            IN  /\ new.name = old.name
                /\ new.order_flag = old.order_flag
                /\ new.parent_uid =
                       IF old.parent_uid # None /\ Val(old.parent_uid) \notin Range(last.keep)
                       THEN None ELSE old.parent_uid

\* Of a chain of three the root was removed: its child survives with a null
\* parent_uid, the grandchild with the parent_uid it had.
C14_Witness ==
    /\ LastWas("categories.hardDeleteOutstanding")
    /\ \E u, v \in DOMAIN db.categories :
           /\ last.before.categories[u].parent_uid # None
           /\ db.categories[u].parent_uid = None
           /\ db.categories[v].parent_uid # None
           /\ db.categories[v].parent_uid = last.before.categories[v].parent_uid
    /\ Cardinality(DOMAIN db.categories) < Cardinality(DOMAIN last.before.categories)

\* C15 as stated: the categories' upsert of a category whose non-null
\* parent_uid names no stored category returns, and stores the row with
\* that parent_uid.
C15_AsStated ==
    (/\ LastWas("categories.upsert")
     /\ Val(last.entity).parent_uid # None
     /\ Val(Val(last.entity).parent_uid) \notin DOMAIN last.before.categories)
        => /\ last.returned = "row"
           /\ last.uid \in DOMAIN db.categories
           /\ db.categories[last.uid].parent_uid = Val(last.entity).parent_uid

\* What the code does instead: such an upsert raises the foreign key error
\* and leaves the store as it was, unless the category names itself and is
\* stored by this very call or already.
C15_DanglingParentRaises ==
    (/\ LastWas("categories.upsert")
     /\ Val(last.entity).parent_uid # None
     /\ Val(Val(last.entity).parent_uid) \notin DOMAIN last.before.categories
     /\ Val(Val(last.entity).parent_uid) # last.uid)
        => /\ last.returned = "SQLITE_CONSTRAINT_FOREIGNKEY"
           /\ db = last.before

\* An upsert of a stored category with a parent_uid that is not stored.
C15_Witness ==
    /\ LastWas("categories.upsert")
    /\ last.uid \in DOMAIN last.before.categories
    /\ Val(last.entity).parent_uid = Some("c3")
    /\ "c3" \notin DOMAIN last.before.categories
    /\ last.returned # "row"

\* upsert was called twice in a row with the same entity, and returned the
\* first time.
UpsertedTwice ==
    /\ last.op \in {"recipes.upsert", "categories.upsert"}
    /\ prev.op = last.op
    /\ prev.entity = last.entity
    /\ prev.returned = "row"

\* The database without the updated columns.
Unstamped(d) ==
    [d EXCEPT !.recipes = [u \in DOMAIN @ |-> Columns(@[u])],
              !.categories = [u \in DOMAIN @ |-> Columns(@[u])]]

\* C17 as stated: the second of two upserts of the same entity returns and
\* leaves the store as the first left it, with one row for the uid.
C17_AsStated ==
    UpsertedTwice
        => /\ last.returned = "row"
           /\ last.uid \in DOMAIN (IF last.op = "recipes.upsert"
                                   THEN db.recipes ELSE db.categories)
           /\ db = last.before

\* C17, amended: the same, but for the updated column, which the second
\* upsert writes again.
C17_SameButForUpdated ==
    UpsertedTwice
        => /\ last.returned = "row"
           /\ last.uid \in DOMAIN (IF last.op = "recipes.upsert"
                                   THEN db.recipes ELSE db.categories)
           /\ Unstamped(db) = Unstamped(last.before)

\* A recipe that was not stored was upserted twice: created, then updated.
C17_Witness ==
    /\ UpsertedTwice /\ last.op = "recipes.upsert"
    /\ last.uid \in DOMAIN last.before.recipes
    /\ last.before.recipes[last.uid].updated.by = "CURRENT_TIMESTAMP"
    /\ db.recipes[last.uid].updated.by = "toISOString"

\* C18: create of an entity whose uid is stored raises the primary key
\* error and leaves the store as it was.
C18_CreateOfStoredUidRaises ==
    /\ (LastWas("recipes.create") /\ last.uid \in DOMAIN last.before.recipes)
           => last.returned = "SQLITE_CONSTRAINT_PRIMARYKEY" /\ db = last.before
    /\ (LastWas("categories.create") /\ last.uid \in DOMAIN last.before.categories)
           => last.returned = "SQLITE_CONSTRAINT_PRIMARYKEY" /\ db = last.before

\* create was called for a stored recipe whose row differs from the entity.
C18_Witness ==
    /\ LastWas("recipes.create") /\ last.uid \in DOMAIN last.before.recipes
    /\ last.before.recipes[last.uid].name # Val(last.entity).name
    /\ last.returned # "row"

\* C19: update of a uid that is not stored returns undefined and changes
\* nothing; update of a stored uid returns the row, writes the properties
\* the object carries, and leaves the other columns of the row (updated
\* apart), the other rows and the other tables as they were.
C19_UpdateWritesOnlySupplied ==
    LastWas("recipes.update") =>
        IF last.uid \notin DOMAIN last.before.recipes
        THEN last.returned = "undefined" /\ db = last.before
        ELSE /\ last.returned = "row"
             /\ DOMAIN db.recipes = DOMAIN last.before.recipes
             /\ \A u \in DOMAIN db.recipes \ {last.uid} :
                    db.recipes[u] = last.before.recipes[u]
             /\ \A f \in RecipeKeys \ Val(last.entity).keys :
                    db.recipes[last.uid][f] = last.before.recipes[last.uid][f]
             /\ \A f \in Val(last.entity).keys :
                    db.recipes[last.uid][f] = prepareForSQLite(Val(last.entity))[f]
             /\ db.categories = last.before.categories
             /\ db.links = last.before.links

\* update with a name only, of a stored recipe with notes, a photo and flags.
C19_Witness ==
    /\ LastWas("recipes.update") /\ last.uid \in DOMAIN last.before.recipes
    /\ Val(last.entity).keys = {"name"}
    /\ last.before.recipes[last.uid].photo # None
    /\ last.before.recipes[last.uid].in_trash = 1
    /\ db.recipes[last.uid].name # last.before.recipes[last.uid].name

\* C20: hardDelete, restore, toggleFavorite and delete of a uid that is not
\* stored return false and leave the store as it was.
C20_UnknownUidIsNoOp ==
    (/\ last.op \in {"recipes.hardDelete", "recipes.restore",
                     "recipes.toggleFavorite", "recipes.delete"}
     /\ last.uid \notin DOMAIN last.before.recipes)
        => last.returned = "false" /\ db = last.before

\* restore, then toggleFavorite, of a uid that is not stored, in a store
\* that holds other recipes.
C20_Witness ==
    /\ LastWas("recipes.toggleFavorite") /\ last.uid \notin DOMAIN last.before.recipes
    /\ prev.op = "recipes.restore" /\ prev.uid = last.uid /\ prev.returned = "false"
    /\ last.before.recipes # EmptyFn

\* The category uids linked to the recipe u.
LinkedTo(u) == {l[2] : l \in {x \in db.links : x[1] = u}}

\* The remote details whose upsert leaves the row now stored for u: those
\* with that uid whose every mapped property is what the row holds.
SyncedDetails(u) ==
    IF u \notin DOMAIN db.recipes THEN {}
    ELSE {d \in {x \in RemoteDetails : x.uid = u /\ x.name = db.recipes[u].name} :
             LET dbRecipe == convertToDbRecipe(d)
                 row == prepareForSQLite(dbRecipe)
             IN  \A f \in dbRecipe.keys : db.recipes[u][f] = row[f]}

\* The entry being processed was synced: the pass waits out its delay and
\* the entry's last call returned.
EntrySynced == RecipePass /\ pc = "delay" /\ calls[Len(calls)].ok

\* C16: right after an index entry is synced, the category uids linked to
\* its recipe are exactly those of the detail that was fetched, none when
\* the detail has no categories (absent, null or empty): linkCategories was
\* the entry's last call and was given them.
C16_LinksAreTheDetailsCategories ==
    EntrySynced =>
        LET k == Len(calls)
            u == calls[k].uid
        IN  /\ calls[k].op = "recipes.linkCategories"
            /\ calls[k-1].op = "recipes.upsert" /\ calls[k-1].uid = u
            /\ SyncedDetails(u) # {}
            /\ \A d \in SyncedDetails(u) :
                   /\ LinkedTo(u) = IF d.categories = None THEN {}
                                    ELSE Range(Val(d.categories))
                   /\ Range(calls[k].keep) = LinkedTo(u)

\* A recipe linked to two categories was synced with a detail that names
\* one of them and a third: one link removed, one kept, one added.
C16_Witness ==
    /\ EntrySynced
    /\ LET u == calls[Len(calls)].uid
           old == {l[2] : l \in {x \in initialDb.links : x[1] = u}}
       IN  /\ old \ LinkedTo(u) # {}
           /\ old \cap LinkedTo(u) # {}
           /\ LinkedTo(u) \ old # {}

\* The calls recorded are of create, soft delete and restore of recipes only.
OnlyTrashCalls ==
    /\ last.op \in {"", "recipes.create", "recipes.delete", "recipes.restore"}
    /\ prev.op \in {"", "recipes.create", "recipes.delete", "recipes.restore"}

\* C21: after create, soft delete and restore calls, in_trash is 0 or 1 in
\* every stored row; getAll() lists exactly the stored recipes with
\* in_trash 0, each once, and count() is their number; getAll(true) lists
\* every stored recipe and count(true) is their number; and a recipe that
\* was soft deleted is still stored: getByUid gives its row, in_trash 1,
\* the other columns (updated apart) as they were.
C21_QueriesFollowTrashFlag ==
    OnlyTrashCalls =>
        /\ \A u \in DOMAIN db.recipes : db.recipes[u].in_trash \in {0, 1}
        /\ getAll(db, FALSE) # {} /\ getAll(db, TRUE) # {}
        /\ \A list \in getAll(db, FALSE) :
               /\ Range(Uids(list)) = {u \in DOMAIN db.recipes : db.recipes[u].in_trash # 1}
               /\ Len(list) = Cardinality(Range(Uids(list)))
               /\ Len(list) = count(db, FALSE)
               /\ \A i \in 1..Len(list) : list[i].row = db.recipes[list[i].uid]
        /\ \A list \in getAll(db, TRUE) :
               /\ Range(Uids(list)) = DOMAIN db.recipes
               /\ Len(list) = Cardinality(DOMAIN db.recipes)
               /\ Len(list) = count(db, TRUE)
        /\ (LastWas("recipes.delete") /\ last.returned = "true") =>
               /\ getByUid(db, last.uid) # None
               /\ Val(getByUid(db, last.uid)).row.in_trash = 1
               /\ \A f \in RecipeKeys \ {"in_trash"} :
                      Val(getByUid(db, last.uid)).row[f] = last.before.recipes[last.uid][f]
               /\ count(db, TRUE) = count(last.before, TRUE)
               /\ \A list \in getAll(db, FALSE) : last.uid \notin Range(Uids(list))
               /\ \A list \in getAll(db, TRUE) : last.uid \in Range(Uids(list))
        /\ (LastWas("recipes.restore") /\ last.returned = "true") =>
               \A list \in getAll(db, FALSE) : last.uid \in Range(Uids(list))

\* A recipe was created not trashed, beside two stored ones, and then soft
\* deleted: the default listing lost it, the full listing did not.
C21_Witness ==
    /\ LastWas("recipes.delete") /\ last.returned = "true"
    /\ prev.op = "recipes.create" /\ prev.uid = last.uid /\ prev.returned = "row"
    /\ last.before.recipes[last.uid].in_trash = 0
    /\ count(db, TRUE) = 3
    /\ count(db, FALSE) < count(last.before, FALSE)
    /\ getByUid(db, last.uid) # None

\* C22: toggleFavorite of a stored recipe returns true and flips the row's
\* on_favorites between 0 and 1; the row's other columns (updated apart),
\* the other rows and the other tables are as they were; and a second
\* toggle right after it gives the row the on_favorites it had.
C22_ToggleFlipsFavoriteOnly ==
    /\ (LastWas("recipes.toggleFavorite") /\ last.uid \in DOMAIN last.before.recipes) =>
           LET old == last.before.recipes[last.uid]
               new == db.recipes[last.uid]
           IN  /\ last.returned = "true"
               /\ DOMAIN db.recipes = DOMAIN last.before.recipes
               /\ new.on_favorites = (IF old.on_favorites = 1 THEN 0 ELSE 1)
               /\ new.on_favorites # old.on_favorites
               /\ \A f \in RecipeKeys \ {"on_favorites"} : new[f] = old[f]
               /\ new.updated.by = "CURRENT_TIMESTAMP" /\ new.updated.at <= now
               /\ \A u \in DOMAIN db.recipes \ {last.uid} :
                      db.recipes[u] = last.before.recipes[u]
               /\ db.categories = last.before.categories
               /\ db.links = last.before.links
    /\ \A u \in DOMAIN db.recipes :
           LET once == RecipeToggleFavorite(db, u).db
               twice == RecipeToggleFavorite(once, u).db
           IN  /\ once.recipes[u].on_favorites # db.recipes[u].on_favorites
               /\ twice.recipes[u].on_favorites = db.recipes[u].on_favorites
               /\ Columns(twice.recipes[u]) = Columns(db.recipes[u])

\* A favorite with notes and a photo was toggled twice in a row: off, then
\* on again.
C22_Witness ==
    /\ LastWas("recipes.toggleFavorite") /\ last.returned = "true"
    /\ prev.op = "recipes.toggleFavorite" /\ prev.uid = last.uid /\ prev.returned = "true"
    /\ last.before.recipes[last.uid].on_favorites = 0
    /\ db.recipes[last.uid].on_favorites = 1
    /\ db.recipes[last.uid].photo # None
    /\ db.recipes[last.uid].in_trash = 1

\* pushRecipe was called for a stored recipe and has ended.
Pushed ==
    /\ request.op = "pushRecipe"
    /\ pc \in {"pushReturned", "pushRaised"}
    /\ request.uid \in DOMAIN initialDb.recipes

\* C23 as stated: a pushRecipe of a stored recipe that has ended made
\* exactly one remote write, updateRecipe if the probe resolved and
\* createRecipe if it rejected, and never createRecipe after a probe that
\* resolved.
C23_AsStated ==
    Pushed =>
        LET writes == CallsOf({"updateRecipe", "createRecipe"})
        IN  /\ calls[1].op = "getRecipe"
            /\ Cardinality(writes) = 1
            /\ \A k \in writes :
                   calls[k].op = IF calls[1].ok THEN "updateRecipe" ELSE "createRecipe"
            /\ calls[1].ok => CallsOf({"createRecipe"}) = {}

\* What the code does: after the probe, updateRecipe if it resolved; then
\* createRecipe if the probe or updateRecipe rejected; pushRecipe returns if
\* its last remote call resolved and rejects otherwise; the store is as it
\* was.
C23_CreateAlsoAfterFailedUpdate ==
    Pushed =>
        /\ calls[1].op = "getRecipe" /\ calls[1].uid = request.uid
        /\ IF calls[1].ok
           THEN /\ calls[2].op = "updateRecipe" /\ calls[2].uid = request.uid
                /\ IF calls[2].ok THEN Len(calls) = 2
                   ELSE Len(calls) = 3 /\ calls[3].op = "createRecipe"
           ELSE Len(calls) = 2 /\ calls[2].op = "createRecipe"
        /\ pc = "pushReturned" <=> calls[Len(calls)].ok
        /\ db = initialDb

\* The probe resolved, updateRecipe rejected, and createRecipe was called
\* and resolved: two remote writes.
C23_Witness ==
    /\ Pushed /\ pc = "pushReturned"
    /\ Len(calls) = 3
    /\ calls[1].ok /\ calls[2].op = "updateRecipe" /\ ~calls[2].ok
    /\ calls[3].op = "createRecipe" /\ calls[3].ok

\* The uids reached from the record of uid u by following parent_uid through
\* the records of the list, in at most n steps.
RECURSIVE Ancestors(_, _, _)
Ancestors(list, u, n) ==
    IF n = 0 \/ u \notin Range(Uids(list)) THEN {}
    ELSE LET r == list[CHOOSE i \in 1..Len(list) : list[i].uid = u]
         IN  IF r.parent_uid = None THEN {}
             ELSE {Val(r.parent_uid)} \cup Ancestors(list, Val(r.parent_uid), n - 1)

\* No record is its own ancestor.
NoParentCycle(list) ==
    \A i \in 1..Len(list) : list[i].uid \notin Ancestors(list, list[i].uid, Len(list))

\* Every ancestor of the record of uid u is a record of the list.
Rooted(list, u) == Ancestors(list, u, Len(list)) \subseteq Range(Uids(list))

\* C25 as stated: for an input with distinct uids and no parent cycle,
\* whether or not every parent_uid names a record, every record of the
\* output whose parent_uid names a record comes after that record.
C25_AsStated ==
    (sortState.done /\ DistinctUids(sortInput) /\ NoParentCycle(sortInput))
        => ParentsFirst(sortState.sorted)

\* C25, amended: for such an input the records all of whose ancestors are
\* records of the input come first, each after its parent; the others (a
\* record whose parent_uid names no record, and its descendants) follow in
\* their input order, where a child may precede its parent.
C25_RootedRecordsParentsFirst ==
    (sortState.done /\ DistinctUids(sortInput) /\ NoParentCycle(sortInput))
        => LET s == sortState.sorted
               rooted == {i \in 1..Len(s) : Rooted(sortInput, s[i].uid)}
           IN  /\ rooted = 1..Cardinality(rooted)
               /\ \A i \in rooted :
                      s[i].parent_uid # None
                          => \E j \in 1..(i - 1) : s[j].uid = Val(s[i].parent_uid)
               /\ SubSeq(s, Cardinality(rooted) + 1, Len(s)) =
                      SelectSeq(sortInput, LAMBDA r : ~Rooted(sortInput, r.uid))

\* A root, a record whose parent_uid names no record, and before it in the
\* input its child: the child was put out before its parent.
C25_Witness ==
    /\ sortState.done /\ DistinctUids(sortInput) /\ NoParentCycle(sortInput)
    /\ Len(sortInput) = 3
    /\ \E i \in 1..3 : sortInput[i].parent_uid = None
    /\ \E i, j \in 1..3 :
           /\ i < j
           /\ sortInput[j].parent_uid = Some("c9")
           /\ sortInput[i].parent_uid = Some(sortInput[j].uid)
    /\ ~ParentsFirst(sortState.sorted)

\* upsert was called, alone, for a recipe that was stored.
UpsertedStored == LastWas("recipes.upsert") /\ last.uid \in DOMAIN last.before.recipes

\* C26 as stated: after upsert of a stored recipe every column of its row
\* (updated apart) is what the entity given holds, null or the default for
\* a property the entity does not carry.
C26_AsStated ==
    UpsertedStored
        => Columns(db.recipes[last.uid]) = prepareForSQLite(Val(last.entity))

\* C26, amended: after upsert of a stored recipe every column of a property
\* the entity carries is what the entity holds (null or the default if it
\* carries undefined), and every column of a property it does not carry is
\* what the row held; updated is written, nothing else is changed.
C26_CarriedOverwrittenOthersKept ==
    UpsertedStored =>
        LET entity == Val(last.entity)
            old == last.before.recipes[last.uid]
            new == db.recipes[last.uid]
        IN  /\ last.returned = "row"
            /\ \A f \in entity.keys : new[f] = prepareForSQLite(entity)[f]
            /\ \A f \in RecipeKeys \ entity.keys : new[f] = old[f]
            /\ new.updated.by = "toISOString"
            /\ DOMAIN db.recipes = DOMAIN last.before.recipes
            /\ \A u \in DOMAIN db.recipes \ {last.uid} :
                   db.recipes[u] = last.before.recipes[u]
            /\ db.categories = last.before.categories
            /\ db.links = last.before.links

\* A stored recipe with a photo and notes was upserted with a recipe built
\* by the sync mapping, which carries no photo and undefined notes: the
\* notes are null, the photo is the old one.
C26_Witness ==
    /\ UpsertedStored
    /\ "photo" \notin Val(last.entity).keys
    /\ "notes" \in Val(last.entity).keys /\ Val(last.entity).notes = None
    /\ last.before.recipes[last.uid].photo # None
    /\ last.before.recipes[last.uid].notes # None
    /\ db.recipes[last.uid].photo = last.before.recipes[last.uid].photo
    /\ db.recipes[last.uid].notes = None
    /\ db.recipes[last.uid].name # last.before.recipes[last.uid].name

\* The calls recorded are of create, upsert and hardDeleteOutstanding of
\* categories only.
OnlyCategoryCalls ==
    /\ last.op \in {"", "categories.create", "categories.upsert",
                    "categories.hardDeleteOutstanding"}
    /\ prev.op \in {"", "categories.create", "categories.upsert",
                    "categories.hardDeleteOutstanding"}

\* C28: every stored category's non-null parent_uid names a stored
\* category, in every state; hardDeleteOutstanding of categories never
\* raises; and for any uids it may be given next, the store between its two
\* statements (children orphaned, nothing deleted yet) and the store after
\* its DELETE both keep every parent_uid naming a stored category.
C28_ParentsAlwaysStored ==
    /\ CategoryForeignKeyOk(db.categories)
    /\ LastWas("categories.hardDeleteOutstanding") =>
           /\ last.returned \in {"true", "false"}
           /\ \A u \in DOMAIN db.categories :
                  db.categories[u].parent_uid # None
                      => Val(db.categories[u].parent_uid) \in Range(last.keep)
    /\ OnlyCategoryCalls =>
           \A uids \in CategoryKeepLists :
               LET orphaned == OrphanChildren(db.categories, Range(uids))
                   deleted == Restrict(orphaned, Range(uids))
               IN  /\ DOMAIN orphaned = DOMAIN db.categories
                   /\ CategoryForeignKeyOk(orphaned)
                   /\ CategoryForeignKeyOk(deleted)
                   /\ CategoryHardDeleteOutstanding(db, uids).ok
                   /\ CategoryHardDeleteOutstanding(db, uids).db.categories = deleted

\* A child was upserted under a stored parent, and then the parent was
\* pruned and the child kept: the child is stored with a null parent_uid.
C28_Witness ==
    /\ LastWas("categories.hardDeleteOutstanding") /\ last.returned = "true"
    /\ prev.op = "categories.upsert" /\ prev.returned = "row"
    /\ Val(prev.entity).parent_uid # None
    /\ prev.uid \in DOMAIN db.categories
    /\ Val(Val(prev.entity).parent_uid) \notin DOMAIN db.categories
    /\ last.before.categories[prev.uid].parent_uid = Val(prev.entity).parent_uid
    /\ db.categories[prev.uid].parent_uid = None

\* The calls of a run of the command made by the category pass, by the recipe pass.
CommandCategoryCalls ==
    CallsOf({"listCategories", "categories.upsert", "categories.hardDeleteOutstanding"})

CommandRecipeCalls ==
    CallsOf({"listRecipes", "recipes.hardDeleteOutstanding", "getRecipe",
             "recipes.upsert", "recipes.linkCategories"})

\* C24: in a run of the command, once syncRecipes has been called the
\* category pass is over and went well: its hardDeleteOutstanding has
\* returned, after one successful upsert per listed category, and every call
\* of the recipe pass (the index fetch, the prune, every fetch, upsert and
\* link) comes after it; and when a call of the category pass failed, the
\* run ended with the error shown, no call of the recipe pass was made and
\* the recipes are as they were.
C24_RecipesOnlyAfterCategories ==
    /\ (\/ CommandRecipeCalls # {}
        \/ pc \in {"listRecipes", "getRecipe", "delay", "recipesReturned",
                   "recipesRaised", "syncComplete"})
           => \E d \in CallsOf({"categories.hardDeleteOutstanding"}) :
                  /\ calls[d].ok
                  /\ \A k \in CommandCategoryCalls : k <= d /\ calls[k].ok
                  /\ Cardinality(CallsOf({"categories.upsert"})) = Len(categories)
                  /\ \A k \in CommandRecipeCalls : k > d
    /\ (\E k \in CommandCategoryCalls : ~calls[k].ok)
           => /\ pc \in {"categoriesRaised", "syncError"}
              /\ error # None
              /\ CommandRecipeCalls = {}
              /\ db.recipes = initialDb.recipes

\* A run is complete in which a recipe was linked to two categories that
\* the category pass of the same run had created.
C24_Witness ==
    /\ pc = "syncComplete"
    /\ \E k \in CallsOf({"recipes.linkCategories"}) :
           /\ calls[k].ok /\ Len(calls[k].keep) = 2
           /\ \A c \in Range(calls[k].keep) :
                  c \notin DOMAIN initialDb.categories /\ <<calls[k].uid, c>> \in db.links

\* listRecipes has returned the index of the recipe pass.
ListedRecipes == \E k \in CallsOf({"listRecipes"}) : calls[k].ok

\* C27 as stated: in a recipe pass a recipe that was stored and is in the
\* remote index keeps the in_trash it had.
C27_AsStated ==
    ListedRecipes =>
        \A u \in IndexUids \cap DOMAIN initialDb.recipes \cap DOMAIN db.recipes :
            db.recipes[u].in_trash = initialDb.recipes[u].in_trash

\* The in_trash column the mapping and prepareForSQLite give a remote detail.
InTrashOf(d) == IF d.in_trash = Some(TRUE) THEN 1 ELSE 0

\* The remote details of uid u with the name, notes, rating and
\* on_favorites now stored for u.
DetailsLike(u) ==
    {d \in RemoteDetails :
        /\ d.uid = u
        /\ d.name = db.recipes[u].name
        /\ d.notes = db.recipes[u].notes
        /\ (IF d.rating = None THEN 0 ELSE Val(d.rating)) = db.recipes[u].rating
        /\ (IF d.on_favorites = Some(TRUE) THEN 1 ELSE 0) = db.recipes[u].on_favorites}

\* C27, amended: right after an entry is synced the stored in_trash is the
\* one of the detail fetched (0 when the detail has none), whatever it was
\* locally; only a recipe that no upsert of the pass has written has the row
\* it had, in_trash included.
C27_InTrashFollowsRemote ==
    /\ (ListedRecipes /\ pc = "delay" /\ calls[Len(calls)].ok) =>
           LET u == calls[Len(calls)].uid
           IN  /\ DetailsLike(u) # {}
               /\ \A d \in DetailsLike(u) : db.recipes[u].in_trash = InTrashOf(d)
    /\ \A u \in DOMAIN db.recipes :
           (\A k \in CallsOf({"recipes.upsert"}) : calls[k].uid # u \/ ~calls[k].ok)
               => (u \in DOMAIN initialDb.recipes /\ db.recipes[u] = initialDb.recipes[u])

\* A run is complete, no entry failed, and a recipe that was in the trash
\* locally and is in the index is no longer in the trash.
C27_Witness ==
    /\ pc = "syncComplete" /\ status.failed = 0
    /\ \E u \in IndexUids \cap DOMAIN initialDb.recipes :
           /\ initialDb.recipes[u].in_trash = 1
           /\ db.recipes[u].in_trash = 0
           /\ db.recipes[u].photo = initialDb.recipes[u].photo

\* The callbacks made by the category pass of a run of the command: one
\* after the list, one after each upsert that returned.
CategoryReports ==
    IF calls # << >> /\ calls[1].op = "listCategories" /\ calls[1].ok
    THEN 1 + Cardinality({k \in CallsOf({"categories.upsert"}) : calls[k].ok})
    ELSE 0

\* C29: in a recipe pass the fetches are made one per index entry, in index
\* order; an upsert comes right after the fetch that returned its detail
\* and a link right after the upsert that returned, so an entry has one
\* fetch and at most one upsert; a fetch comes right after the prune or
\* after the previous entry's last call (one that raised, or its link); and
\* while entry i is being fetched the callback has been called for the
\* index and for each of the i - 1 entries before it.
C29_OneEntryAtATime ==
    ListedRecipes =>
        LET fetches == CallsOf({"getRecipe"})
            over == IF pc = "getRecipe" THEN item - 1 ELSE item
        IN  /\ pc \in {"getRecipe", "delay", "recipesReturned", "syncComplete"}
            /\ item <= Len(recipeList)
            /\ pc \in {"recipesReturned", "syncComplete"} => item = Len(recipeList)
            /\ Cardinality(fetches) = over
            /\ \A k \in fetches :
                   /\ calls[k].uid = recipeList[Cardinality({j \in fetches : j <= k})].uid
                   /\ \/ calls[k-1].op = "recipes.hardDeleteOutstanding"
                      \/ ~calls[k-1].ok
                      \/ calls[k-1].op = "recipes.linkCategories"
                   /\ calls[k].ok => (k < Len(calls) /\ calls[k+1].op = "recipes.upsert")
            /\ \A k \in CallsOf({"recipes.upsert"}) :
                   /\ calls[k-1].op = "getRecipe" /\ calls[k-1].ok
                   /\ calls[k].ok => (k < Len(calls) /\ calls[k+1].op = "recipes.linkCategories")
            /\ \A k \in CallsOf({"recipes.linkCategories"}) :
                   calls[k-1].op = "recipes.upsert" /\ calls[k-1].ok
            /\ Len(progress) - CategoryReports = 1 + over

\* A run is complete over an index of two recipes: the first was fetched
\* and upserted and its link raised, the second was then fetched and synced.
C29_Witness ==
    /\ pc = "syncComplete" /\ Len(recipeList) = 2
    /\ recipeList[1].uid # recipeList[2].uid
    /\ status.failed = 1 /\ status.synced = 1
    /\ status.errors[1].uid = recipeList[1].uid
    /\ \E k \in CallsOf({"recipes.linkCategories"}) :
           ~calls[k].ok /\ calls[k+1].op = "getRecipe" /\ calls[k+1].uid = recipeList[2].uid

\* C30: the category pass calls the callback once after the list, with
\* categories.synced 0, and once after each upsert, with categories.synced
\* 1, 2, ... up to total when the pass returns; the recipe pass calls it
\* once after the index, with total set and synced = failed = 0, and once
\* after each entry, with either synced or failed one more than at the call
\* before, total + 1 times when the pass returns.
C30_ProgressOncePerItem ==
    /\ (calls # << >> /\ calls[1].op = "listCategories" /\ calls[1].ok) =>
           /\ Len(progress) >= CategoryReports
           /\ \A j \in 1..CategoryReports :
                  progress[j].status.categories =
                      [total |-> Len(categories), synced |-> j - 1]
           /\ (\E d \in CallsOf({"categories.hardDeleteOutstanding"}) : calls[d].ok)
                  => CategoryReports = Len(categories) + 1
           /\ ~ListedRecipes => Len(progress) = CategoryReports
    /\ ListedRecipes =>
           LET n == CategoryReports
               m == Len(progress) - n
           IN  /\ m >= 1
               /\ progress[n+1].status.total = Len(recipeList)
               /\ progress[n+1].status.synced = 0
               /\ progress[n+1].status.failed = 0
               /\ \A j \in 2..m :
                      LET p == progress[n+j].status
                          q == progress[n+j-1].status
                      IN  /\ p.total = Len(recipeList)
                          /\ \/ p.synced = q.synced + 1 /\ p.failed = q.failed
                             \/ p.synced = q.synced /\ p.failed = q.failed + 1
               /\ progress[Len(progress)].status.synced = status.synced
               /\ progress[Len(progress)].status.failed = status.failed
               /\ pc \in {"recipesReturned", "syncComplete"} => m = Len(recipeList) + 1

\* A run is complete over two categories and two recipes, one synced and
\* one failed: the callback was called three times by each pass.
C30_Witness ==
    /\ pc = "syncComplete"
    /\ Len(categories) = 2 /\ Len(recipeList) = 2
    /\ Len(progress) = 6
    /\ progress[3].status.categories.synced = 2
    /\ progress[5].status.failed = 1 /\ progress[6].status.synced = 1

\* C31 as stated: every object the pass under way gave to the progress
\* callback is a snapshot; a callback that kept it reads from it, at any
\* later time, the counts, the errors list and the categories counts it had
\* when the callback was called.
C31_AsStated ==
    \A i \in 1..Len(progress) : Held(progress[i]) = progress[i].status

\* A recipe pass has returned; the object of its first call had synced 0
\* and no error when given and now reads otherwise, and the object of a
\* later call, a copy, has since got an entry more in its errors list.
C31_Witness ==
    /\ pc = "recipesReturned"
    /\ Len(progress) = 3
    /\ progress[1].shared
    /\ progress[1].status.synced = 0 /\ Held(progress[1]).synced = 1
    /\ ~progress[2].shared
    /\ progress[2].status.errors = << >> /\ Len(Held(progress[2]).errors) = 1
    /\ Held(progress[2]).synced = progress[2].status.synced

\* The list a holds records of the list b in the order b has them (a is b
\* with some records left out).
RECURSIVE InOrderOf(_, _)
InOrderOf(a, b) ==
    IF a = << >> THEN TRUE
    ELSE IF b = << >> THEN FALSE
    ELSE IF Head(a) = Head(b) THEN InOrderOf(Tail(a), Tail(b))
    ELSE InOrderOf(a, Tail(b))

\* C32: an iteration of the sorter leaves what was placed before it where
\* it is and adds, after it, the records of its frontier (no parent_uid, or
\* a parent placed by an earlier iteration) in their relative input order;
\* the iteration that stalls adds, after all placed records, the records
\* left, in their relative input order.
C32_FrontierKeepsInputOrder ==
    [][sortState' # sortState =>
        LET old == sortState.sorted
            new == sortState'.sorted
            left == sortState'.remaining
            stalled == left # << >> /\ sortState'.done
            placed == SubSeq(new, Len(old) + 1, Len(new) - (IF stalled THEN Len(left) ELSE 0))
        IN  /\ Len(new) >= Len(old) /\ SubSeq(new, 1, Len(old)) = old
            /\ InOrderOf(placed, sortInput)
            /\ \A i \in 1..Len(placed) :
                   \/ placed[i].parent_uid = None
                   \/ \E j \in 1..Len(old) : old[j].uid = Val(placed[i].parent_uid)
            /\ stalled => /\ Len(new) >= Len(left)
                          /\ SubSeq(new, Len(new) - Len(left) + 1, Len(new)) = left
                          /\ left = sortState.remaining
                          /\ InOrderOf(left, sortInput)
            /\ ~stalled => placed # << >>]_vars

\* The sorter ended on three records with distinct uids: the second and the
\* third, both roots, were placed by the first iteration in that order, and
\* the first, whose parent names no record, was appended by the second.
C32_Witness ==
    /\ sortState.done /\ Len(sortInput) = 3 /\ DistinctUids(sortInput)
    /\ sortState.iterations = 2
    /\ sortInput[1].parent_uid = Some("c9")
    /\ sortInput[2].parent_uid = None /\ sortInput[3].parent_uid = None
    /\ sortState.sorted = <<sortInput[2], sortInput[3], sortInput[1]>>

\* C33 as stated: the processing of an entry that ends with its uid added
\* to status.errors has no effect on the local store.
C33_AsStated ==
    [][Len(status'.errors) > Len(status.errors) => db' = db]_vars

\* An entry of the index that was not stored failed at linkCategories,
\* after its upsert: its uid is in status.errors, it is counted as failed,
\* and its row is stored.
C33_Witness ==
    /\ pc = "delay"
    /\ calls[Len(calls)].op = "recipes.linkCategories" /\ ~calls[Len(calls)].ok
    /\ calls[Len(calls) - 1].op = "recipes.upsert" /\ calls[Len(calls) - 1].ok
    /\ status.errors # << >>
    /\ LET e == status.errors[Len(status.errors)]
       IN  /\ e.uid = recipeList[item].uid /\ e.error = "linkCategories"
           /\ e.uid \notin DOMAIN initialDb.recipes
           /\ e.uid \in DOMAIN db.recipes
    /\ status.failed = 1 /\ status.synced = 0

\* The detail fetch of an index entry with the uid u failed in the pass.
FetchFailed(u) ==
    \E k \in 1..Len(calls) : calls[k].op = "getRecipe" /\ ~calls[k].ok /\ calls[k].uid = u

\* The links of the recipe u in the store d.
LinksOf(d, u) == {l \in d.links : l[1] = u}

\* The links the recipe u had when syncRecipes was called by the command:
\* those of the start of the run but for the ones removed with their
\* category by the category pass (the recipe pass removes no category).
LinksBeforeRecipes(u) == {l \in LinksOf(initialDb, u) : l[2] \in DOMAIN db.categories}

\* The recipe u, stored before the recipe pass, is stored as it was then.
AsBeforeRecipes(u) ==
    /\ u \in DOMAIN db.recipes
    /\ db.recipes[u] = initialDb.recipes[u]
    /\ LinksOf(db, u) = LinksBeforeRecipes(u)

\* C34 as stated: when syncRecipes has returned, a recipe that was stored
\* before the pass and whose uid is that of an index entry whose detail
\* fetch failed is stored with the attributes and the links it had.
C34_AsStated ==
    pc \in {"recipesReturned", "syncComplete"} =>
        \A u \in DOMAIN initialDb.recipes : FetchFailed(u) => AsBeforeRecipes(u)

\* C34 amended: the same, if no other index entry has that uid and each
\* fetched detail carried the uid of its index entry (otherwise the entry
\* that is synced under the same uid overwrites the row and its links); it
\* then holds from the failed fetch on.
C34_FailedFetchLeavesRecipe ==
    (pc \in {"getRecipe", "delay", "recipesReturned", "syncComplete"}
        /\ DistinctUids(recipeList) /\ DetailsCarryEntryUid) =>
        \A u \in DOMAIN initialDb.recipes : FetchFailed(u) => AsBeforeRecipes(u)

\* A pass over an index of two stored recipes has returned: the fetch of the
\* first failed and it is stored with its links as before, the second was
\* synced and its row was rewritten.
C34_Witness ==
    /\ pc = "recipesReturned"
    /\ Len(recipeList) = 2 /\ DistinctUids(recipeList)
    /\ status.failed = 1 /\ status.synced = 1
    /\ LET u == recipeList[1].uid
           v == recipeList[2].uid
       IN  /\ FetchFailed(u) /\ ~FetchFailed(v)
           /\ u \in DOMAIN initialDb.recipes /\ v \in DOMAIN initialDb.recipes
           /\ LinksOf(db, u) # {}
           /\ AsBeforeRecipes(u)
           /\ db.recipes[v] # initialDb.recipes[v]

\* C35: every row of recipe_categories names a stored recipe and a stored
\* category, whatever recipes and categories were removed (hardDelete,
\* hardDeleteOutstanding of either kind) and whatever linkCategories was
\* asked to write or failed to write.
C35_AssociationsNameStored ==
    \A l \in db.links : l[1] \in DOMAIN db.recipes /\ l[2] \in DOMAIN db.categories

\* linkCategories wrote rows for a stored recipe, then hardDelete removed
\* the recipe and its rows with it while other recipes' rows remain.
C35_Witness ==
    /\ prev.op = "recipes.linkCategories" /\ prev.returned = "undefined"
    /\ prev.keep # << >>
    /\ last.op = "recipes.hardDelete" /\ last.returned = "true"
    /\ last.uid = prev.uid
    /\ \A i \in 1..Len(prev.keep) : <<last.uid, prev.keep[i]>> \in last.before.links
    /\ LinksOf(db, last.uid) = {}
    /\ db.links # {}

\* C36 as stated: for an input list in which two records share a uid, the
\* sorter's output has the length of the input and holds every record as
\* many times as the input holds it.
C36_AsStated ==
    (sortState.done /\ ~DistinctUids(sortInput))
        => /\ Len(sortState.sorted) = Len(sortInput)
           /\ \A r \in Range(sortInput) \cup Range(sortState.sorted) :
                  Occurrences(sortState.sorted, r) = Occurrences(sortInput, r)

\* The sorter ended on two records of one uid, the first naming a parent
\* that is no record and the second a root: the output is the root twice,
\* the first record is not in it.
C36_Witness ==
    /\ sortState.done /\ Len(sortInput) = 2
    /\ sortInput[1].uid = sortInput[2].uid
    /\ sortInput[1].parent_uid = Some("c9") /\ sortInput[2].parent_uid = None
    /\ sortState.sorted = <<sortInput[2], sortInput[2]>>
    /\ sortState.iterations = 2

\* deleteRecipe was called.
Deleting == request.op = "deleteRecipe"

\* C37: in deleteRecipe(uid) the store is as it was while the remote delete
\* is awaited; hardDelete(uid) is called only next after a remote delete of
\* that uid that resolved; if the remote delete rejects, deleteRecipe
\* rejects with that error, hardDelete is not called and the store, the
\* recipe's row and links included, is as it was; if it resolves, the row
\* and its links are gone and nothing else has changed.
C37_LocalDeleteOnlyAfterRemote ==
    Deleting =>
        /\ \A k \in CallsOf({"recipes.hardDelete"}) :
               /\ k > 1 /\ calls[k].uid = request.uid
               /\ calls[k-1].op = "deleteRecipe" /\ calls[k-1].ok
               /\ calls[k-1].uid = request.uid
        /\ pc = "deleteRemote" => db = initialDb /\ calls = << >>
        /\ pc = "deleteRaised" =>
               /\ error = Rejected("deleteRecipe")
               /\ calls = <<Call("deleteRecipe", request.uid, FALSE)>>
               /\ db = initialDb
        /\ pc = "deleteReturned" =>
               /\ error = None
               /\ request.uid \notin DOMAIN db.recipes
               /\ db.recipes = Restrict(initialDb.recipes,
                                        (DOMAIN initialDb.recipes) \ {request.uid})
               /\ db.links = {l \in initialDb.links : l[1] # request.uid}
               /\ db.categories = initialDb.categories
        /\ pc \in {"deleteRemote", "deleteRaised", "deleteReturned"}

\* deleteRecipe of a stored recipe with links has returned: the remote
\* delete resolved, then the row and its links were removed.
C37_Witness ==
    /\ Deleting /\ pc = "deleteReturned"
    /\ request.uid \in DOMAIN initialDb.recipes
    /\ LinksOf(initialDb, request.uid) # {}
    /\ LinksOf(db, request.uid) = {}
    /\ db.links # {}
    /\ Len(calls) = 2 /\ calls[1].op = "deleteRecipe" /\ calls[1].ok

\* The list tree holds every stored category exactly once, each one after
\* its parent when its parent_uid names a stored category.
ListsAllParentsFirst(tree) ==
    /\ Len(tree) = Cardinality(DOMAIN db.categories)
    /\ \A u \in DOMAIN db.categories :
           Cardinality({i \in 1..Len(tree) : tree[i] = u}) = 1
    /\ \A i \in 1..Len(tree) :
           (tree[i] \in DOMAIN db.categories /\ ParentFound(db, tree[i]))
               => \E j \in 1..(i - 1) : tree[j] = Val(db.categories[tree[i]].parent_uid)

\* C38 as stated: whatever is stored, parent_uids that form a cycle
\* included, getCategoryTree returns every stored category exactly once,
\* each one after its parent.
C38_AsStated ==
    \A tree \in getCategoryTree(db) : ListsAllParentsFirst(tree)

\* Following parent_uid from the stored category u never comes back to a
\* category already met.
RECURSIVE ChainEnds(_, _)
ChainEnds(u, met) ==
    IF ~ParentFound(db, u) THEN TRUE
    ELSE LET p == Val(db.categories[u].parent_uid)
         IN  IF p \in met \cup {u} THEN FALSE ELSE ChainEnds(p, met \cup {u})

\* What the code does: the categories whose chain of parents ends at a
\* category with no parent are returned exactly once, after their parents;
\* a category on a cycle of parent_uids, or below one, is not returned.
C38_OnlyRootedCategoriesReturned ==
    \A tree \in getCategoryTree(db) :
        /\ \A u \in DOMAIN db.categories :
               Cardinality({i \in 1..Len(tree) : tree[i] = u})
                   = IF ChainEnds(u, {}) THEN 1 ELSE 0
        /\ \A i \in 1..Len(tree) :
               ParentFound(db, tree[i])
                   => \E j \in 1..(i - 1) : tree[j] = Val(db.categories[tree[i]].parent_uid)

\* Two stored categories name each other as parent (an upsert made the
\* second link) and a third has no parent: getCategoryTree returns the
\* third alone.
C38_Witness ==
    /\ last.op = "categories.upsert" /\ last.returned = "row"
    /\ \E u, v \in DOMAIN db.categories :
           /\ u # v
           /\ db.categories[u].parent_uid = Some(v)
           /\ db.categories[v].parent_uid = Some(u)
           /\ \E w \in DOMAIN db.categories :
                  /\ db.categories[w].parent_uid = None
                  /\ getCategoryTree(db) = {<<w>>}

\* The key of the step is the printable character ch with no modifier.
TypedNow(ch) == tui'.pressed = Some([input |-> ch, key |-> NoKey])

\* C39 as stated: while search mode is active, a printable character typed
\* is appended to the search query, and it neither quits the application
\* nor toggles the help overlay nor clears the category filters; Backspace
\* removes the last character of the query.
C39_AsStated ==
    [][(tui.isSearchActive /\ tui' # tui) =>
          /\ \A ch \in PrintableCharacters :
                 TypedNow(ch) =>
                     /\ tui'.searchQuery = Append(tui.searchQuery, ch)
                     /\ ~tui'.exited
                     /\ tui'.showHelp = tui.showHelp
                     /\ tui'.selectedCategoryUids = tui.selectedCategoryUids
          /\ tui'.pressed = Some([input |-> "", key |-> [NoKey EXCEPT !.backspace = TRUE]])
                 => tui'.searchQuery = DropLast(tui.searchQuery)]_vars

\* What the code does: with search mode active and the help overlay hidden,
\* q quits, ? opens the help overlay, x clears the category filters when
\* there are some, and none of these is appended; every other printable
\* character is appended and Backspace removes the last character.
C39_ShortcutsComeBeforeSearch ==
    [][(tui.isSearchActive /\ ~tui.showHelp /\ tui' # tui) =>
          /\ tui.activePaneId = "list"
          /\ \A ch \in PrintableCharacters :
                 TypedNow(ch) =>
                     IF ch = "q"
                     THEN tui'.exited /\ tui'.searchQuery = tui.searchQuery
                     ELSE IF ch = "?"
                     THEN tui'.showHelp /\ tui'.searchQuery = tui.searchQuery
                     ELSE IF ch = "x" /\ tui.selectedCategoryUids # << >>
                     THEN /\ tui'.selectedCategoryUids = << >>
                          /\ tui'.searchQuery = tui.searchQuery
                     ELSE /\ tui'.searchQuery = Append(tui.searchQuery, ch)
                          /\ ~tui'.exited /\ ~tui'.showHelp
                          /\ tui'.selectedCategoryUids = tui.selectedCategoryUids
          /\ tui'.pressed = Some([input |-> "", key |-> [NoKey EXCEPT !.backspace = TRUE]])
                 => tui'.searchQuery = DropLast(tui.searchQuery)]_vars

\* With a category selected and "a" typed in search mode, q was typed: the
\* query is still "a" and the process has exited.
C39_Witness ==
    /\ tui.isSearchActive /\ ~tui.showHelp
    /\ tui.searchQuery = <<"a">>
    /\ tui.selectedCategoryUids # << >>
    /\ tui.pressed = Some([input |-> "q", key |-> NoKey])
    /\ tui.exited

=============================================================================
